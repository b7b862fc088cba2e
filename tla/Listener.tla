------------------------------ MODULE Listener ------------------------------
(***************************************************************************)
(* The edge listener of one Deployment (Deployment.go): the goroutine     *)
(* running ListenSubscriptionStatus, which waits for the subscription     *)
(* result on edgeErrorChan and, on success, runs listenEdgeEvents, a      *)
(* select loop over ctx.Done() and edgeEventsChan.                         *)
(*                                                                         *)
(* Both channels are unbuffered: the edge watcher's send is pending until *)
(* the listener receives it.  The watcher may also close a channel, and   *)
(* the deployment's owner may cancel ctx (cancelCtx) at any time.  An     *)
(* event handed to processEdgeEvent is counted; what it does to the graph *)
(* is the subject of Deployment.  A failure path writes all-Unknown       *)
(* conditions through updateSubscriptionFailureCondition; the write       *)
(* itself is the subject of StatusWriter, here only its reason is kept.   *)
(***************************************************************************)
EXTENDS Naturals

CONSTANTS
    SubscriptionOutcomes, \* what the watcher may put on edgeErrorChan
    StreamMayClose,       \* TRUE: the watcher may close edgeEventsChan
    MaxEvents,            \* bound on events sent
    MaxFailureWrites      \* bound on failure status writes

ASSUME SubscriptionOutcomes \subseteq {"nil", "err", "closed"}

VARIABLES
    pc,          \* "sub": in ListenSubscriptionStatus; "loop": in
                 \* listenEdgeEvents; "done": the goroutine has returned
    sig,         \* edgeErrorChan: "none" (nothing sent yet), or the pending
                 \* value "nil" / "err", or "closed"
    offered,     \* an event send is pending on edgeEventsChan
    sent,        \* events the watcher has sent
    evClosed,    \* edgeEventsChan is closed
    ctxDone,     \* the deployment's ctx is cancelled
    processed,   \* events handed to processEdgeEvent
    lastFailure, \* reason of the last failure status written, or "none"
    failWrites   \* failure status writes

vars == <<pc, sig, offered, sent, evClosed, ctxDone, processed, lastFailure, failWrites>>

Reasons == {"none", "EdgeConnectionFailure", "EdgeConnectionBroken"}

Init ==
    /\ pc = "sub" /\ sig = "none"
    /\ offered = FALSE /\ sent = 0 /\ evClosed = FALSE
    /\ ctxDone = FALSE /\ processed = 0
    /\ lastFailure = "none" /\ failWrites = 0

-----------------------------------------------------------------------------
(* The environment: the edge watcher and the deployment's owner. *)

\* The subscription result: nil, an error, or the channel closed.
Signal(o) == /\ sig = "none" /\ sig' = o
             /\ UNCHANGED <<pc, offered, sent, evClosed, ctxDone, processed,
                            lastFailure, failWrites>>

\* The watcher sends an event (it waits until the listener receives it).
Offer == /\ sig = "nil" /\ ~offered /\ ~evClosed /\ sent < MaxEvents
         /\ offered' = TRUE /\ sent' = sent + 1
         /\ UNCHANGED <<pc, sig, evClosed, ctxDone, processed, lastFailure, failWrites>>

\* The watcher closes the event stream.
CloseStream == /\ sig = "nil" /\ StreamMayClose /\ ~evClosed /\ ~offered
               /\ evClosed' = TRUE
               /\ UNCHANGED <<pc, sig, offered, sent, ctxDone, processed,
                              lastFailure, failWrites>>

\* cancelCtx
Cancel == /\ ~ctxDone /\ ctxDone' = TRUE
          /\ UNCHANGED <<pc, sig, offered, sent, evClosed, processed, lastFailure, failWrites>>

-----------------------------------------------------------------------------
(* The listener goroutine. *)

\* updateSubscriptionFailureCondition with the given reason.
WriteFailure(reason) == /\ failWrites < MaxFailureWrites
                        /\ lastFailure' = reason /\ failWrites' = failWrites + 1

\* ListenSubscriptionStatus: `err, ok := <-edgeErrorChan`, a receive that
\* does not watch ctx.  nil: run listenEdgeEvents; an error or a closed
\* channel: write EdgeConnectionFailure and return.
SubReceive ==
    /\ pc = "sub" /\ sig # "none"
    /\ IF sig = "nil"
       THEN pc' = "loop" /\ UNCHANGED <<lastFailure, failWrites>>
       ELSE pc' = "done" /\ WriteFailure("EdgeConnectionFailure")
    /\ UNCHANGED <<sig, offered, sent, evClosed, ctxDone, processed>>

\* Mutant: the ctx.Done() case without its return.
LoopCancelledNoReturn ==
    /\ pc = "loop" /\ ctxDone
    /\ UNCHANGED vars

\* listenEdgeEvents, case <-ctx.Done(): return.
LoopCancelled ==
    /\ pc = "loop" /\ ctxDone
    /\ pc' = "done"
    /\ UNCHANGED <<sig, offered, sent, evClosed, ctxDone, processed, lastFailure, failWrites>>

\* Mutant: the `if ok` test dropped, a receive from the closed channel
\* handled as an event.
LoopEventNoOkCheck ==
    /\ pc = "loop" /\ (offered \/ evClosed)
    /\ offered' = FALSE /\ processed' = processed + 1
    /\ UNCHANGED <<pc, sig, sent, evClosed, ctxDone, lastFailure, failWrites>>

\* listenEdgeEvents, an event received (ok): processEdgeEvent.
LoopEvent ==
    /\ pc = "loop" /\ offered
    /\ offered' = FALSE /\ processed' = processed + 1
    /\ UNCHANGED <<pc, sig, sent, evClosed, ctxDone, lastFailure, failWrites>>

\* listenEdgeEvents, the channel closed (!ok): the failure is written and
\* the loop goes round again; there is no return.
LoopClosed ==
    /\ pc = "loop" /\ evClosed
    /\ WriteFailure("EdgeConnectionBroken")
    /\ UNCHANGED <<pc, sig, offered, sent, evClosed, ctxDone, processed>>

Next ==
    \/ \E o \in SubscriptionOutcomes : Signal(o)
    \/ Offer \/ CloseStream \/ Cancel
    \/ SubReceive \/ LoopCancelled \/ LoopEvent \/ LoopClosed

\* The Go scheduler runs a runnable goroutine, and select picks among the
\* ready cases at random, so every listener case that stays ready is
\* eventually taken.  Nothing obliges the watcher to answer.
Spec == Init /\ [][Next]_vars
        /\ WF_vars(SubReceive) /\ WF_vars(LoopCancelled)
        /\ WF_vars(LoopEvent) /\ WF_vars(LoopClosed)

\* As Spec, and the watcher answers the subscription.
AnsweredSpec == Spec /\ WF_vars(\E o \in SubscriptionOutcomes : Signal(o))

-----------------------------------------------------------------------------
(* Properties *)

TypeOK ==
    /\ pc \in {"sub", "loop", "done"}
    /\ sig \in {"none", "nil", "err", "closed"}
    /\ offered \in BOOLEAN /\ evClosed \in BOOLEAN /\ ctxDone \in BOOLEAN
    /\ sent \in 0..MaxEvents /\ processed \in 0..MaxEvents
    /\ lastFailure \in Reasons /\ failWrites \in 0..MaxFailureWrites

\* A failure is terminal (spec 4.3): once a failure status has been
\* written, no further edge event reaches processEdgeEvent and overwrites
\* it with an aggregate (listenEdgeEvents must not treat a receive from
\* the closed channel as an event).
FailureIsTerminal ==
    [][lastFailure # "none" => processed' = processed]_vars

\* Once the deployment's ctx is cancelled the listener goroutine returns
\* (spec 5: no unbounded blocking without a cancellation path).
ListenerStopsOnCancel == ctxDone ~> pc = "done"

\* Once the event stream is closed the listener writes
\* EdgeConnectionBroken and returns (spec 4.3).
ListenerStopsOnClose == (pc = "loop" /\ evClosed) ~> pc = "done"

=============================================================================
