---------------------------- MODULE PriceStream ----------------------------
(***************************************************************************)
(* apps/web/app/api/live-pricing/stream/route.ts: one stream of prices to  *)
(* one client.  A loop fetches and sleeps in turn; between its awaits the  *)
(* request may be aborted, which runs a listener at once, and the consumer *)
(* may cancel the stream.  The code between two awaits is one step.        *)
(***************************************************************************)
EXTENDS Naturals

CONSTANT MaxSent    \* chunks sent, at most: bounds the model only

VARIABLES closed,      \* the flag the closures share
          controller,  \* the stream: readable, closed or cancelled
          aborted,     \* request.signal.aborted
          woken,       \* sleepController.signal.aborted
          loop,        \* where the loop awaits: fetch, sleep, or ended
          sent,        \* chunks enqueued
          misuse       \* enqueue or close of a stream that is not readable

vars == <<closed, controller, aborted, woken, loop, sent, misuse>>

Init == /\ closed = FALSE /\ controller = "readable" /\ woken = FALSE
        /\ aborted \in BOOLEAN    \* a signal aborted before the listener is added
        /\ loop = "fetch" /\ sent = 0 /\ misuse = FALSE

CloseStream == closed' = TRUE /\ woken' = TRUE

\* Mutant: safeClose does not look at the flag.
SafeCloseAlways ==
    /\ CloseStream
    /\ controller' = IF controller = "readable" THEN "closed" ELSE controller
    /\ misuse' = (misuse \/ controller # "readable")

SafeClose ==
    IF closed THEN UNCHANGED <<closed, woken, controller, misuse>>
    ELSE /\ CloseStream
         /\ controller' = IF controller = "readable" THEN "closed" ELSE controller
         /\ misuse' = (misuse \/ controller # "readable")

\* sendPayload and sendError, through safeEnqueue.  An enqueue that throws,
\* of a stream that is not readable, closes.
Send ==
    CASE closed -> UNCHANGED <<closed, woken, controller, misuse, sent>>
      [] ~closed /\ controller = "readable" ->
           /\ sent' = IF sent < MaxSent THEN sent + 1 ELSE sent
           /\ UNCHANGED <<closed, woken, controller, misuse>>
      [] OTHER -> SafeClose /\ UNCHANGED sent

\* What the loop does once fetchAndSend returns.
AfterFetch == loop' = IF closed' THEN "ended" ELSE "sleep"

\* The price arrives.
FetchEnds == /\ loop = "fetch" /\ ~aborted
             /\ Send /\ AfterFetch
             /\ UNCHANGED aborted

\* Mutant: only the flag is looked at.
FetchFailsByFlag == /\ loop = "fetch"
                    /\ IF closed THEN SafeClose /\ UNCHANGED sent ELSE Send
                    /\ AfterFetch
                    /\ UNCHANGED aborted

\* The API fails, the fetch times out or is aborted.  A request aborted
\* before the listener was added is only noticed here.
FetchFails == /\ loop = "fetch"
              /\ IF aborted \/ closed THEN SafeClose /\ UNCHANGED sent ELSE Send
              /\ AfterFetch
              /\ UNCHANGED aborted

SleepEnds == /\ loop = "sleep" /\ ~woken
             /\ loop' = IF closed THEN "ended" ELSE "fetch"
             /\ UNCHANGED <<closed, controller, aborted, woken, sent, misuse>>

SleepAborted == /\ loop = "sleep" /\ woken
                /\ SafeClose
                /\ loop' = "ended"
                /\ UNCHANGED <<aborted, sent>>

\* The listener runs when the request is aborted.
Abort == /\ ~aborted
         /\ aborted' = TRUE
         /\ SafeClose
         /\ UNCHANGED <<loop, sent>>

\* The consumer is gone.
Cancel == /\ controller = "readable"
          /\ controller' = "cancelled"
          /\ IF closed THEN UNCHANGED <<closed, woken>> ELSE CloseStream
          /\ UNCHANGED <<aborted, loop, sent, misuse>>

LoopStep == FetchEnds \/ FetchFails \/ SleepEnds \/ SleepAborted

Next == LoopStep \/ Abort \/ Cancel

Spec == Init /\ [][Next]_vars
-----------------------------------------------------------------------------
TypeOK == /\ {closed, aborted, woken, misuse} \subseteq BOOLEAN
          /\ controller \in {"readable", "closed", "cancelled"}
          /\ loop \in {"fetch", "sleep", "ended"} /\ sent \in 0..MaxSent

(* Whatever the order of an abort, a cancellation and the end of a fetch or *)
(* of a sleep: the controller is closed once and never used afterwards, and *)
(* the loop does not leave a stream open behind it (safeClose, cancel).     *)
ClosedOnce == ~misuse /\ (loop = "ended" => controller # "readable")

(* The loop of a client that went away ends: it does not fetch for ever.    *)
StreamEnds == (aborted \/ controller = "cancelled") ~> loop = "ended"
=============================================================================
