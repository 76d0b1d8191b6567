------------------------------ MODULE FakeXhr ------------------------------
(***************************************************************************)
(* The XMLHttpRequest of the shim.  Nothing about it is asynchronous: every *)
(* event fires inside open(), send() or abort(), and the functions it calls *)
(* may call these again.  What is left to do is a stack of frames, the      *)
(* innermost first.                                                         *)
(*                                                                         *)
(* Arrays of listeners are JavaScript objects: a forEach goes on over the   *)
(* array it began with, and sees what happens to that array.                *)
(***************************************************************************)
EXTENDS Naturals, FiniteSets, Sequences

CONSTANTS
    Listeners, \* functions of the SDK
    Watched    \* the types of events it gives them to

EventTypes == {"readystatechange", "load", "loadend", "abort"}

ASSUME XhrAssumption == Watched \subseteq EventTypes

VARIABLES
    readyState, \* 0 unsent, 1 opened, 2 headers received, 4 done
    handlers,   \* the types whose on<type> is set
    listeners,  \* _listeners: an index into arrays, 0 for undefined
    arrays,     \* the arrays made for this request, in use or not
    stack       \* what remains to be done

xhrVars == <<readyState, handlers, listeners, arrays, stack>>

\* The frames: a function of the SDK that is running; the rest of a method.
Function == [op |-> "function"]
SetState(n) == [op |-> "state", to |-> n]
FireEvent(type) == [op |-> "fire", type |-> type]
CallListeners(type) == [op |-> "listeners", type |-> type]
\* history: "had" is the array as forEach found it, "called" whom it called.
ForEach(array) ==
    [op |-> "forEach", array |-> array, length |-> Len(arrays[array]), next |-> 1,
     had |-> arrays[array], called |-> <<>>]

\* What open(), send() and abort() do once the fields of the request are set.
OpenFrames == <<SetState(1)>>
SendFrames == <<SetState(2), SetState(4), FireEvent("load"), FireEvent("loadend")>>
AbortFrames == <<FireEvent("abort")>>

XhrInit ==
    /\ readyState = 0 /\ handlers = {}
    /\ listeners = [t \in EventTypes |-> 0] /\ arrays = <<>>
    /\ stack = <<>>

\* new XMLHttpRequest(), by a script that goes on with the frames.
NewXhr(frames) ==
    /\ readyState' = 0 /\ handlers' = {}
    /\ listeners' = [t \in EventTypes |-> 0] /\ arrays' = <<>>
    /\ stack' = frames

Top(op) == stack # <<>> /\ Head(stack).op = op
Pop(frames) == stack' = frames \o Tail(stack)
Push(frames) == stack' = frames \o stack

-----------------------------------------------------------------------------
(* The steps of the shim.                                                  *)

Called(type) == IF type \in handlers THEN <<Function>> ELSE <<>>

\* readyState is assigned and _changeState() begins: it calls
\* onreadystatechange, and _fireEvent() will call it again.
ChangeState ==
    /\ Top("state")
    /\ readyState' = Head(stack).to
    /\ Pop(Called("readystatechange") \o <<FireEvent("readystatechange")>>)
    /\ UNCHANGED <<handlers, listeners, arrays>>

\* _fireEvent(): the handler first; the listeners are looked up afterwards.
CallHandler ==
    /\ Top("fire")
    /\ Pop(Called(Head(stack).type) \o <<CallListeners(Head(stack).type)>>)
    /\ UNCHANGED <<readyState, handlers, listeners, arrays>>

BeginForEach ==
    /\ Top("listeners")
    /\ LET array == listeners[Head(stack).type]
       IN Pop(IF array = 0 THEN <<>> ELSE <<ForEach(array)>>)
    /\ UNCHANGED <<readyState, handlers, listeners, arrays>>

\* forEach() goes to the length the array had, past elements that are gone.
VisitNext ==
    /\ Top("forEach")
    /\ LET f == Head(stack)
           at == arrays[f.array]
       IN  /\ f.next <= f.length
           /\ Pop(IF f.next > Len(at) THEN <<[f EXCEPT !.next = @ + 1]>>
                  ELSE <<Function, [f EXCEPT !.next = @ + 1,
                                             !.called = Append(@, at[f.next])]>>)
    /\ UNCHANGED <<readyState, handlers, listeners, arrays>>

EndForEach ==
    /\ Top("forEach")
    /\ Head(stack).next > Head(stack).length
    /\ Pop(<<>>)
    /\ UNCHANGED <<readyState, handlers, listeners, arrays>>

XhrSteps == ChangeState \/ CallHandler \/ BeginForEach \/ VisitNext \/ EndForEach

-----------------------------------------------------------------------------
(* What a function of the SDK may do with the request while it runs.       *)

open == Push(OpenFrames) /\ UNCHANGED <<readyState, handlers, listeners, arrays>>

send == Push(SendFrames) /\ UNCHANGED <<readyState, handlers, listeners, arrays>>

abort ==
    /\ readyState' = 0
    /\ Push(AbortFrames)
    /\ UNCHANGED <<handlers, listeners, arrays>>

setHandler(type) ==
    /\ handlers' \in {handlers \cup {type}, handlers \ {type}}
    /\ UNCHANGED <<readyState, listeners, arrays, stack>>

NewArray(type, array) ==
    /\ arrays' = Append(arrays, array)
    /\ listeners' = [listeners EXCEPT ![type] = Len(arrays')]

\* push() changes the array in place ...
addEventListener(type, fn) ==
    /\ IF listeners[type] = 0 THEN NewArray(type, <<fn>>)
       ELSE /\ arrays' = [arrays EXCEPT ![listeners[type]] = Append(@, fn)]
            /\ UNCHANGED listeners
    /\ UNCHANGED <<readyState, handlers, stack>>

\* filter(f => f !== fn): the elements that are kept, each at its rank.
Without(array, fn) ==
    LET kept == {i \in 1..Len(array) : array[i] # fn}
        KeptBefore(i) == {k \in kept : k < i}
    IN  [n \in 1..Cardinality(kept) |->
            array[CHOOSE i \in kept : Cardinality(KeptBefore(i)) = n - 1]]

removeEventListener_InPlace(type, fn) ==
    /\ listeners[type] # 0
    /\ arrays' = [arrays EXCEPT ![listeners[type]] = Without(@, fn)]
    /\ UNCHANGED <<readyState, handlers, listeners, stack>>

\* ... and filter() makes a new one.
removeEventListener(type, fn) ==
    /\ NewArray(type, IF listeners[type] = 0 THEN <<>>
                      ELSE Without(arrays[listeners[type]], fn))
    /\ UNCHANGED <<readyState, handlers, stack>>

UsesXhr ==
    \/ open \/ send \/ abort
    \/ \E type \in Watched :
           \/ setHandler(type)
           \/ \E fn \in Listeners : addEventListener(type, fn) \/ removeEventListener(type, fn)

\* The function returns, or throws, which its caller ignores.
FunctionReturns ==
    /\ Top("function")
    /\ Pop(<<>>)
    /\ UNCHANGED <<readyState, handlers, listeners, arrays>>

-----------------------------------------------------------------------------

\* An event reaches everyone who listened when it fired, once each and in
\* order, whatever the listeners it calls add, remove, open or send.
EachListenerOnce ==
    \A i \in DOMAIN stack : stack[i].op = "forEach" =>
        stack[i].called = SubSeq(stack[i].had, 1, stack[i].next - 1)
=============================================================================
