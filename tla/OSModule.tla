------------------------------- MODULE OSModule -------------------------------
(***************************************************************************)
(* Modules (Modules/osmodule.c): loading them, telling all of them about   *)
(* each other in service calls, and finding the one that implements a SWI. *)
(*                                                                         *)
(* OS_Module runs on the legacy stack, so loads nest like the frames of    *)
(* that stack: the initialisation code of a module, and what a module does *)
(* in a service call, may load another, and while one of them is blocked   *)
(* another task may.  SWIs look for their module on any core, meanwhile;   *)
(* OS_Module 12 and 18 look too, and change nothing.                       *)
(*                                                                         *)
(* A header is the code of a module in the ROM; an instance of it is a     *)
(* load with a postfix, as in FileCore%RAM.                                *)
(***************************************************************************)
EXTENDS Naturals, FiniteSets, SequencesExt

CONSTANTS
  Headers,
  HasInit,       \* those with initialisation code
  HasService,    \* those with a service call handler
  Instanced,     \* those that are also loaded with a postfix
  MaxModules,    \* struct modules allocated
  MaxInstances,  \* loads with a postfix, of each header
  MaxTold        \* calls for one service: a walk along a cycle has no end

ASSUME HeadersAssumption ==
  HasInit \cup HasService \cup Instanced \subseteq Headers
ASSUME BoundsAssumption ==
  MaxModules \in Nat /\ MaxInstances \in Nat /\ MaxTold \in Nat

VARIABLES
  mods,        \* the struct modules, in the order of their allocation
  modules,     \* shared.module.modules: 0 or the first of the list
  last,
  in_init,     \* the module being initialised
  frames,      \* what the loads are doing, innermost first
  finished,    \* modules whose load has succeeded, in that order
  direct,      \* the SWI another core is about to run without the legacy stack
  stopped      \* why the core has stopped, or "no"

loadVars == <<mods, modules, last, in_init, frames, finished, stopped>>
vars == <<loadVars, direct>>

Modules == DOMAIN mods

Init ==
  /\ mods = <<>>
  /\ modules = 0
  /\ last = 0
  /\ in_init = 0
  /\ frames = <<>>
  /\ finished = <<>>
  /\ direct = {}
  /\ stopped = "no"

-----------------------------------------------------------------------------
\* The modules from m on, following next; 0 is the null pointer.  A list has no
\* more modules than there are, one that is longer has a cycle.
List(m) ==
  LET at[k \in 0 .. Len(mods)] ==
        IF k = 0 THEN m ELSE IF at[k - 1] = 0 THEN 0 ELSE mods[at[k - 1]].next
  IN  [k \in 1 .. Cardinality({j \in DOMAIN at : at[j] # 0}) |-> at[k - 1]]

\* The first module of the list with the header, or 0: find_initialised_module,
\* and find_module_by_chunk, as the modules' chunks differ.
find(h) ==
  LET list == List(modules)
      found == {k \in DOMAIN list : mods[list[k]].header = h}
  IN  IF found = {} THEN 0 ELSE list[CHOOSE k \in found : \A j \in found : k <= j]

\* find_module_by_chunk
preferred(h) == IF find(h) = 0 THEN 0 ELSE mods[find(h)].preferred

handler_available(h) == preferred(h) # 0 /\ mods[preferred(h)].handlers # 0

\* Of the SWIs that modules implement.
needs_legacy_stack(h) == ~handler_available(h)

\* What runs for one: the module is looked up again.
run_module_swi(h) ==
  CASE preferred(h) = 0                  -> "unknown"
    [] mods[preferred(h)].handlers # 0   -> "handlers"
    [] OTHER                             -> "legacy code"

New(h, base, pref) ==
  [header |-> h, next |-> 0, instances |-> 0, base |-> base,
   preferred |-> pref, handlers |-> 0]

\* new_module, without a postfix: the module is its own preferred instance.
new_module(h) == Append(mods, New(h, 0, Len(mods) + 1))

\* With one: it goes to the end of the base's list of instances, which is linked
\* by next, and is preferred from now on.
new_instance(h) ==
  LET base == find(h)
      m == Len(mods) + 1
      i == List(mods[base].instances)
      linked == IF i = <<>> THEN [mods EXCEPT ![base].instances = m]
                            ELSE [mods EXCEPT ![Last(i)].next = m]
  IN  Append([linked EXCEPT ![base].preferred = m], New(h, base, 0))

\* Mutant: the list's end stays what it was.
append_behind(ms, m) ==
  /\ mods' = IF last = 0 THEN ms ELSE [ms EXCEPT ![last].next = m]
  /\ last' = IF last = 0 THEN m ELSE last
  /\ modules' = IF modules = 0 THEN m ELSE modules

\* append_module_to_list
append(ms, m) ==
  /\ mods' = IF last = 0 THEN ms ELSE [ms EXCEPT ![last].next = m]
  /\ last' = m
  /\ modules' = IF modules = 0 THEN m ELSE modules

-----------------------------------------------------------------------------
\* Code that may load a module: HAL's, a module's initialisation code, or a
\* module that is told about another.
MayLoad ==
  /\ stopped = "no"
  /\ frames # <<>> => Head(frames).kind \in {"init", "told"}

\* Mutant: the list has the module while it is initialised.
StartsListed(ms, m) ==
  /\ append(ms, m)
  /\ in_init' = m
  /\ finished' = IF ms[m].header \in HasInit THEN finished ELSE Append(finished, m)
  /\ frames' = IF ms[m].header \in HasInit
               THEN <<[kind |-> "init", m |-> m, old |-> in_init,
                       registered |-> FALSE]>> \o frames
               ELSE frames

\* run_initialisation_code, up to the module's own code.
Starts(ms, m) ==
  IF ms[m].header \in HasInit
  THEN /\ mods' = ms
       /\ in_init' = m
       /\ frames' = <<[kind |-> "init", m |-> m, old |-> in_init,
                       registered |-> FALSE]>> \o frames
       /\ UNCHANGED <<modules, last, finished>>
  ELSE /\ append(ms, m)
       /\ finished' = Append(finished, m)
       /\ UNCHANGED <<in_init, frames>>

\* load_and_initialise.  A postfix needs a base, without one new_module PANICs.
Load(h) ==
  /\ MayLoad
  /\ Len(mods) < MaxModules
  /\ Starts(new_module(h), Len(mods) + 1)
  /\ UNCHANGED stopped

LoadInstance(h) ==
  /\ MayLoad
  /\ Len(mods) < MaxModules
  /\ Cardinality({m \in Modules : mods[m].header = h /\ mods[m].base # 0})
       < MaxInstances
  /\ IF find(h) = 0
     THEN /\ stopped' = "no base"
          /\ UNCHANGED <<mods, modules, last, in_init, frames, finished>>
     ELSE /\ Starts(new_instance(h), Len(mods) + 1)
          /\ UNCHANGED stopped

\* TaskOpRegisterSWIHandlers, from a module's initialisation code, which does it
\* once.  What is registered here is which module's handlers they are.
RegisterSWIHandlers ==
  /\ stopped = "no"
  /\ frames # <<>> /\ Head(frames).kind = "init" /\ ~Head(frames).registered
  /\ frames' = [frames EXCEPT ![1].registered = TRUE]
  /\ IF in_init = 0 \/ mods[in_init].handlers # 0
     THEN stopped' = "registered twice" /\ UNCHANGED mods
     ELSE /\ mods' = [mods EXCEPT ![in_init].handlers = Head(frames).m]
          /\ UNCHANGED stopped
  /\ UNCHANGED <<modules, last, in_init, finished>>

\* Mutant: in_init is cleared, not restored.
InitSucceedsClearing ==
  /\ stopped = "no"
  /\ frames # <<>> /\ Head(frames).kind = "init"
  /\ LET m == Head(frames).m
     IN  /\ in_init' = 0
         /\ append(mods, m)
         /\ finished' = Append(finished, m)
         /\ frames' = <<[kind |-> "walk", at |-> modules', inst |-> 0,
                         told |-> <<>>]>> \o Tail(frames)
  /\ UNCHANGED stopped

\* The initialisation code returns without an error: the module is listed, and
\* Service_ModulePostInit tells all modules.
InitSucceeds ==
  /\ stopped = "no"
  /\ frames # <<>> /\ Head(frames).kind = "init"
  /\ LET m == Head(frames).m
     IN  /\ in_init' = Head(frames).old
         /\ append(mods, m)
         /\ finished' = Append(finished, m)
         /\ frames' = <<[kind |-> "walk", at |-> modules', inst |-> 0,
                         told |-> <<>>]>> \o Tail(frames)
  /\ UNCHANGED stopped

\* With an error: the module is not listed, the error returned.  HAL gives up then,
\* another task that loads a module does not.
InitFails ==
  /\ stopped = "no"
  /\ frames # <<>> /\ Head(frames).kind = "init"
  /\ in_init' = Head(frames).old
  /\ frames' = Tail(frames)
  /\ stopped' \in (IF Len(frames) = 1 THEN {"no", "error"} ELSE {"no"})
  /\ UNCHANGED <<mods, modules, last, finished>>

-----------------------------------------------------------------------------
\* do_OS_ServiceCall walks the list, and where a module has instances their
\* list instead of the module.

Walking == stopped = "no" /\ frames # <<>> /\ Head(frames).kind = "walk"

Walks(f) == frames' = [frames EXCEPT ![1] = f]

\* Mutant: what follows a module was looked up before it was called.
TellNextKnown ==
  /\ Walking
  /\ LET f == Head(frames)
         m == f.at
         i == IF f.inst # 0 THEN f.inst ELSE mods[m].instances
     IN  /\ m # 0 /\ Len(f.told) < MaxTold
         /\ IF mods[m].header \notin HasService
            THEN Walks([f EXCEPT !.at = mods[m].next])
            ELSE Walks([kind |-> "told", at |-> m,
                        inst |-> mods[IF i = 0 THEN m ELSE i].next,
                        told |-> Append(f.told, IF i = 0 THEN m ELSE i)])
  /\ UNCHANGED <<mods, modules, last, in_init, finished, stopped>>

\* A module is called: what follows it is looked up after that, what follows an
\* instance before.
Tell ==
  /\ Walking
  /\ LET f == Head(frames)
         m == f.at
         i == IF f.inst # 0 THEN f.inst ELSE mods[m].instances
     IN  /\ m # 0 /\ Len(f.told) < MaxTold
         /\ IF mods[m].header \notin HasService
            THEN Walks([f EXCEPT !.at = mods[m].next])
            ELSE IF i = 0
            THEN Walks([f EXCEPT !.kind = "told", !.told = Append(@, m)])
            ELSE Walks([kind |-> "told", at |-> m,
                        inst |-> mods[i].next, told |-> Append(f.told, i)])
  /\ UNCHANGED <<mods, modules, last, in_init, finished, stopped>>

\* It returns, and has not claimed the call.
ToldReturns ==
  /\ stopped = "no"
  /\ frames # <<>> /\ Head(frames).kind = "told"
  /\ LET f == Head(frames)
     IN  Walks([f EXCEPT !.kind = "walk",
                         !.at = IF f.inst = 0 THEN mods[f.at].next ELSE f.at])
  /\ UNCHANGED <<mods, modules, last, in_init, finished, stopped>>

\* It has: nobody else is told.
Claims ==
  /\ stopped = "no"
  /\ frames # <<>> /\ Head(frames).kind = "told"
  /\ frames' = Tail(frames)
  /\ UNCHANGED <<mods, modules, last, in_init, finished, stopped>>

WalkEnds ==
  /\ Walking
  /\ Head(frames).at = 0
  /\ frames' = Tail(frames)
  /\ UNCHANGED <<mods, modules, last, in_init, finished, stopped>>

-----------------------------------------------------------------------------
\* execute_swi on another core, for a SWI that does not need the legacy stack; it
\* decides that, and then run_module_swi is called.
SwiIsDirect(h) ==
  /\ stopped = "no"
  /\ direct = {}
  /\ ~needs_legacy_stack(h)
  /\ direct' = {h}
  /\ UNCHANGED loadVars

SwiRuns == direct # {} /\ direct' = {} /\ UNCHANGED loadVars

Loading ==
  \/ \E h \in Headers : Load(h)
  \/ \E h \in Instanced : LoadInstance(h)
  \/ RegisterSWIHandlers \/ InitSucceeds \/ InitFails
  \/ Tell \/ ToldReturns \/ Claims \/ WalkEnds

Next ==
  \/ Loading /\ UNCHANGED direct
  \/ \E h \in Headers : SwiIsDirect(h)
  \/ SwiRuns

Spec == Init /\ [][Next]_vars

-----------------------------------------------------------------------------
\* No module has been loaded with a second postfix.  new_module links a second
\* instance to the first by next, which links the modules' list as well: it puts
\* one that is not ready in that list, or makes a cycle of it.
OneInstanceEach ==
  \A m, n \in Modules :
    /\ mods[m].base # 0 /\ mods[n].base # 0
    /\ mods[m].header = mods[n].header
    => m = n

\* However loads nest, fail, and are started by other loads, as long as there is
\* no second instance the list is that of the modules that were loaded, each once
\* and in the order they were ready in, so that no walk along it misses one or
\* goes on for ever.
ListIsWhole ==
  OneInstanceEach =>
    /\ List(modules) = finished
    /\ last = IF finished = <<>> THEN 0 ELSE Last(finished)

\* The handlers a module registers become that module's, also after it loaded
\* another that registered its own: TaskOpRegisterSWIHandlers is only told the
\* handlers, and takes in_init's word for whose they are.
HandlersAreTheirOwn ==
  /\ \A m \in Modules : mods[m].handlers \in {0, m}
  /\ stopped # "registered twice"

\* No SWI, on whatever core and at whatever moment of a load, gets to a module
\* that is not ready; and one that was found not to need the legacy stack still
\* has its handlers when it runs, whatever was loaded meanwhile, so that no
\* legacy code is executed on another stack.  Modules with a postfix are
\* different: new_module makes them preferred before they are ready.
SwisGetToReadyModules ==
  \A h \in Headers :
    LET m == preferred(h)
    IN  m # 0 /\ mods[m].base = 0 =>
          /\ m \in ToSet(finished)
          /\ h \in direct => run_module_swi(h) = "handlers"

\* A service call that nobody claims gets to every module that is ready when it
\* ends, also to those that were loaded while it was under way, and once as long
\* as there are no instances.  (Modules that follow an instance are told again
\* for every one, and a second instance breaks the list.)
EveryoneIsTold ==
  (Walking /\ Head(frames).at = 0 /\ OneInstanceEach) =>
    LET told == Head(frames).told
        Listens(m) == mods[m].header \in HasService /\ mods[m].instances = 0
    IN  /\ {m \in ToSet(finished) : Listens(m)} \subseteq ToSet(told)
        /\ (\A m \in Modules : mods[m].base = 0) => IsInjective(told)
===============================================================================
