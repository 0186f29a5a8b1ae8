-------------------------- MODULE DelegateStorage --------------------------
(***************************************************************************)
(* DelegateStorage and DelegateBase (delegate.h): a delegate is bound to   *)
(* nothing, to a function, to a method of an instance it does not own, or  *)
(* to a callable it owns, which lies in its inline buffer when that is     *)
(* enabled and the callable is small, or in an allocation of its own.      *)
(* Binding and copying construct callables and may throw.  What is         *)
(* invoked is what ObjectPtr points at.                                    *)
(***************************************************************************)
EXTENDS Naturals, FiniteSets

CONSTANTS
  Delegates,
  Callables,     \* kinds of callable that bind_lambda, bind_shared, ... own
  Small,         \* the callables fitsInline accepts; {} without EnableSBO
  Cells,         \* bound: heap allocations at once
  Function,      \* a free function, for bind_static
  Instance,      \* an instance that bind_raw does not own
  Nothing

(* Places a callable can lie at.                                           *)
Buffer(d) == <<"buffer", d>>
Places == {Buffer(d) : d \in Delegates} \cup {<<"cell", c>> : c \in Cells}

(* What a run must choose.                                                 *)
ParametersAssumption ==
  /\ Small \subseteq Callables
  /\ Cardinality({Function, Instance, Nothing} \ Callables) = 3
  /\ {Instance, Nothing} \cap Places = {}

VARIABLES
  binding,   \* Ops and Invoker of each delegate: what they were made for
  pointer,   \* ObjectPtr
  memory,    \* the callable constructed at each place
  meant      \* history: what the caller last bound each delegate to

vars == <<binding, pointer, memory, meant>>

Owned(b) == b \in Callables
Inline(b) == b \in Small

FreeCell(m, p) == p[1] = "cell" /\ m[p] = Nothing

(* Where initFromCallable and the copy put a callable of delegate d.       *)
Homes(m, d, b) == IF Inline(b) THEN {Buffer(d)} ELSE {p \in Places : FreeCell(m, p)}

(* Ops->Destroy: nothing for functions and instances.                      *)
Destroyed(m, b, p) == IF Owned(b) THEN [m EXCEPT ![p] = Nothing] ELSE m

(* The memory once d has been reset.                                       *)
AfterReset(d) == Destroyed(memory, binding[d], pointer[d])

Reset(d) ==
  /\ memory' = AfterReset(d)
  /\ binding' = [binding EXCEPT ![d] = Nothing]
  /\ pointer' = [pointer EXCEPT ![d] = Nothing]
  /\ meant' = [meant EXCEPT ![d] = Nothing]

(* initFromStaticBinding, initFromRawBinding, initFromConstRawBinding      *)
BindUnowned(d, target) ==
  /\ memory' = AfterReset(d)
  /\ binding' = [binding EXCEPT ![d] = target]
  /\ pointer' = [pointer EXCEPT ![d] = IF target = Instance THEN Instance ELSE Nothing]
  /\ meant' = [meant EXCEPT ![d] = target]

(* initFromCallable: the old binding goes first.                           *)
BindCallable(d, b) ==
  \E p \in Homes(AfterReset(d), d, b) :
    /\ memory' = [AfterReset(d) EXCEPT ![p] = b]
    /\ binding' = [binding EXCEPT ![d] = b]
    /\ pointer' = [pointer EXCEPT ![d] = p]
    /\ meant' = [meant EXCEPT ![d] = b]

(* The allocation or the constructor throws: the delegate is unbound.      *)
BindFails(d, b) == Reset(d)

(* Mutant of CopyPlace: the copy shares the object.                        *)
CopyPlaceShared(m, d, e) == {pointer[e]}

(* Ops->Copy: where the copy of e's object for d goes; the same instance,  *)
(* no object, or a clone.                                                  *)
CopyPlace(m, d, e) ==
  IF Owned(binding[e]) THEN Homes(m, d, binding[e]) ELSE {pointer[e]}

Constructed(m, p, b) == IF Owned(b) THEN [m EXCEPT ![p] = b] ELSE m

(* Copy assignment from another delegate: a copy is made, d is reset and   *)
(* the copy moved in.  The copy of a small callable is constructed in the  *)
(* copy's own buffer and moved to d's, so d's buffer is free by then; a    *)
(* clone on the heap is made while d still holds its own.                  *)
CopyAssign(d, e) ==
  /\ d # e
  /\ \E p \in CopyPlace(memory, d, e) :
       /\ memory' = Constructed(AfterReset(d), p, binding[e])
       /\ pointer' = [pointer EXCEPT ![d] = p]
  /\ binding' = [binding EXCEPT ![d] = binding[e]]
  /\ meant' = [meant EXCEPT ![d] = meant[e]]

(* Copying an owned callable throws: d is as it was.                       *)
CopyFails(d, e) ==
  /\ d # e
  /\ Owned(binding[e])
  /\ UNCHANGED vars

(* Ops->Move: an inline callable is moved to d's buffer and destroyed at   *)
(* e's; anything else passes by its pointer.                               *)
MovedMemory(m, d, e) ==
  IF Inline(binding[e]) THEN [m EXCEPT ![Buffer(d)] = binding[e], ![Buffer(e)] = Nothing] ELSE m

(* Move assignment; the source is left unbound.                            *)
MoveAssign(d, e) ==
  /\ d # e
  /\ memory' = MovedMemory(AfterReset(d), d, e)
  /\ binding' = [binding EXCEPT ![d] = binding[e], ![e] = Nothing]
  /\ pointer' = [pointer EXCEPT ![d] = IF Inline(binding[e]) THEN Buffer(d) ELSE pointer[e],
                                ![e] = Nothing]
  /\ meant' = [meant EXCEPT ![d] = meant[e], ![e] = Nothing]

Init ==
  /\ binding = [d \in Delegates |-> Nothing]
  /\ pointer = [d \in Delegates |-> Nothing]
  /\ memory = [p \in Places |-> Nothing]
  /\ meant = [d \in Delegates |-> Nothing]

Next ==
  \E d \in Delegates :
    \/ Reset(d)
    \/ \E target \in {Function, Instance} : BindUnowned(d, target)
    \/ \E b \in Callables : BindCallable(d, b) \/ BindFails(d, b)
    \/ \E e \in Delegates : CopyAssign(d, e) \/ CopyFails(d, e) \/ MoveAssign(d, e)

Spec == Init /\ [][Next]_vars

-----------------------------------------------------------------------------
TypeOK ==
  /\ binding \in [Delegates -> Callables \cup {Function, Instance, Nothing}]
  /\ \A d \in Delegates : pointer[d] \in Places \cup {Instance, Nothing}
  /\ memory \in [Places -> Callables \cup {Nothing}]

(* What execute runs for d: nothing when unbound (bad_function_call), the  *)
(* function, the instance's method, or the object its pointer leads to.    *)
Invoked(d) ==
  CASE binding[d] \in {Nothing, Function} -> binding[d]
    [] binding[d] = Instance -> pointer[d]
    [] OTHER -> memory[pointer[d]]

(* Through binds that fail, copies and moves, executing a delegate runs    *)
(* what was bound to it, and an assignment that throws changes nothing.    *)
RunsWhatWasBound == \A d \in Delegates : Invoked(d) = meant[d]

(* A callable alive has exactly one delegate that will destroy it: none    *)
(* leaks and none is destroyed twice.                                      *)
OwnedOnce ==
  \A p \in Places : memory[p] # Nothing =>
    Cardinality({d \in Delegates : Owned(binding[d]) /\ pointer[d] = p}) = 1

(* A delegate points into its own buffer or outside all of them, so that   *)
(* it survives the one it was copied or moved from.                        *)
NoForeignBuffer ==
  \A d, e \in Delegates : pointer[d] = Buffer(e) => d = e /\ Inline(binding[d])
=============================================================================
