------------------------------- MODULE Transformer -------------------------------
(***************************************************************************)
(* The transformer of src/transform/: one of its three engines runs over   *)
(* the input.  "write" is write_to and the like with a streamable XPath,   *)
(* "for_each" the same without output, and "fallback" either of them with  *)
(* an XPath that needs the tree.                                           *)
(***************************************************************************)
EXTENDS Dispatch

CONSTANT MaxTreeEvents \* bound: events in the input of the fallback

ASSUME TreeEventsAssumption == MaxTreeEvents \in Nat

VARIABLES
  engine,                                              \* which one runs
  open, written, copied, echoed, removed,              \* Rewrite, and calls of Dispatch
  limit, pass, pos, nodeStack, childIndex, match, output  \* Fallback

W == INSTANCE Rewrite

F == INSTANCE Fallback WITH MaxEvents <- MaxTreeEvents

rewriteOnly == <<open, copied, echoed>>
dispatchOnly == <<registered, progress, broke>>
fallbackOnly == <<limit, pass, pos, nodeStack, childIndex, match, output>>

vars == <<eventVars, engine, rewriteOnly, dispatchOnly, fallbackOnly, written, calls, removed>>

(* The engine that does not run has no state.                              *)
Unused(v) == v = "unused"

Init ==
  /\ EventsInit
  /\ \/ /\ engine = "write"
        /\ W!RewriteInit
        /\ Unused(registered) /\ Unused(progress) /\ Unused(broke)
        /\ Unused(limit) /\ Unused(pass) /\ Unused(pos) /\ Unused(nodeStack)
        /\ Unused(childIndex) /\ Unused(match) /\ Unused(output)
     \/ /\ engine = "for_each"
        /\ DispatchInit
        /\ Unused(open) /\ Unused(copied) /\ Unused(echoed) /\ Unused(written) /\ Unused(removed)
        /\ Unused(limit) /\ Unused(pass) /\ Unused(pos) /\ Unused(nodeStack)
        /\ Unused(childIndex) /\ Unused(match) /\ Unused(output)
     \/ /\ engine = "fallback"
        /\ F!FallbackInit
        /\ Unused(open) /\ Unused(copied) /\ Unused(echoed)
        /\ Unused(registered) /\ Unused(progress) /\ Unused(broke)

Write ==
  /\ engine = "write"
  /\ W!RewriteNext
  /\ UNCHANGED <<engine, dispatchOnly, fallbackOnly>>

ForEach ==
  /\ engine = "for_each"
  /\ DispatchNext
  /\ UNCHANGED <<engine, rewriteOnly, fallbackOnly, written, removed>>

TwoPasses ==
  /\ engine = "fallback"
  /\ F!FallbackNext
  /\ UNCHANGED <<engine, rewriteOnly, dispatchOnly>>

Next == Write \/ ForEach \/ TwoPasses

Spec == Init /\ [][Next]_vars

-------------------------------------------------------------------------------
(* Properties: those of the engines, of the engine that runs.              *)

(* Rewrite: every byte once.                                               *)
EachEventOnce == engine = "write" => W!EachEventOnce

(* Rewrite: each match once, by the first handler that selects it.         *)
FirstMatchWins == engine = "write" => W!FirstMatchWins

(* Rewrite: no part of the input is copied twice.                          *)
NothingTwice == engine = "write" => W!NothingTwice

(* Dispatch: handlers do not affect each other.                            *)
EachHandlerAlone == engine = "for_each" => HandlersAlone

(* Dispatch: the order of calls, and where reading stops.                  *)
CallsInOrder == engine = "for_each" => CallsOrdered

(* Dispatch: a stopped handler has no subtree in progress.                 *)
StoppedHoldsNothing == engine = "for_each" => StoppedHoldNothing

(* Fallback: the elements edited are those selected.                       *)
EditsWhatWasSelected == engine = "fallback" => F!EditsWhatWasSelected

(* Fallback: no other element is passed to the callback.                   *)
CallsOnlySelected == engine = "fallback" => F!CallsOnlySelected

==============================================================================
