----------------------------- MODULE EmailQueue -----------------------------
(* MemoryQueue of account-center: a bounded queue, a channel that holds one
   notification, and the goroutine that waits for it, drops the notifications
   that came with it and then sends until it finds the queue empty.
   The order of the heap is left out: any message may be the next. *)
EXTENDS Naturals, FiniteSets

CONSTANTS Messages, QueueSize, MaxRetries

VARIABLES
    queue,      \* the messages that wait
    notified,   \* notifyCh
    started,
    stopping,   \* why it is to end: "stop" (stopCh is closed), "context" (it is done)
    worker,     \* the step of the goroutine
    sending,    \* what it has taken from the queue: at most one message
    attempt,
    offered     \* history: messages given to Enqueue

emailVars == <<queue, notified, started, stopping, worker, sending, attempt, offered>>

Goto(step) == worker' = step

Init ==
    /\ queue = {} /\ notified = FALSE /\ started = FALSE /\ stopping = {}
    /\ worker = "off" /\ sending = {} /\ attempt = 0
    /\ offered = {}

\* A full queue refuses; a notification that is still there stands for this one.
Enqueue(m) ==
    /\ m \notin offered /\ offered' = offered \union {m}
    /\ IF Cardinality(queue) < QueueSize
       THEN queue' = queue \union {m} /\ notified' = TRUE
       ELSE UNCHANGED <<queue, notified>>
    /\ UNCHANGED <<started, stopping, worker, sending, attempt>>

Start ==
    /\ ~started /\ started' = TRUE
    /\ Goto("wait")
    /\ UNCHANGED <<queue, notified, stopping, sending, attempt, offered>>

\* Stop closes the channel, which can be done once, and waits for the goroutine.
Stop ==
    /\ started /\ "stop" \notin stopping
    /\ stopping' = stopping \union {"stop"}
    /\ UNCHANGED <<queue, notified, started, worker, sending, attempt, offered>>

Stopped ==
    /\ started /\ "stop" \in stopping /\ worker = "off"
    /\ started' = FALSE
    /\ UNCHANGED <<queue, notified, stopping, worker, sending, attempt, offered>>

CancelContext ==
    /\ "context" \notin stopping /\ stopping' = stopping \union {"context"}
    /\ UNCHANGED <<queue, notified, started, worker, sending, attempt, offered>>

-----------------------------------------------------------------------------
\* select: when both channels are ready, either one.
Process ==
    /\ worker = "wait"
    /\ \/ stopping # {} /\ Goto("off") /\ UNCHANGED notified
       \/ notified /\ notified' = FALSE /\ Goto("coalesce")
    /\ UNCHANGED <<queue, started, stopping, sending, attempt, offered>>

CoalesceNotifications ==
    /\ worker = "coalesce"
    /\ notified' = FALSE
    /\ Goto("next")
    /\ UNCHANGED <<queue, started, stopping, sending, attempt, offered>>

ProcessNext ==
    /\ worker = "next"
    /\ IF queue = {} THEN Goto("wait") /\ UNCHANGED <<queue, sending>>
       ELSE \E m \in queue : /\ queue' = queue \ {m} /\ sending' = {m}
                             /\ Goto("send")
    /\ attempt' = 0
    /\ UNCHANGED <<notified, started, stopping, offered>>

\* The message has been sent, or given up.
SendWithRetry ==
    /\ worker = "send"
    /\ \/ sending' = {} /\ Goto("more") /\ UNCHANGED attempt
       \/ /\ attempt < MaxRetries /\ attempt' = attempt + 1
          /\ Goto("backoff") /\ UNCHANGED sending
    /\ UNCHANGED <<queue, notified, started, stopping, offered>>

Backoff ==
    /\ worker = "backoff"
    /\ \/ Goto("send") /\ UNCHANGED sending
       \/ "context" \in stopping /\ sending' = {} /\ Goto("more")
    /\ UNCHANGED <<queue, notified, started, stopping, attempt, offered>>

OneAtATime == FALSE
MoreWaiting == queue # {}

DrainQueue ==
    /\ worker = "more"
    /\ Goto(IF MoreWaiting THEN "next" ELSE "wait")
    /\ UNCHANGED <<queue, notified, started, stopping, sending, attempt, offered>>

Next ==
    \/ \E m \in Messages : Enqueue(m)
    \/ Start \/ Stop \/ Stopped \/ CancelContext
    \/ Process \/ CoalesceNotifications \/ ProcessNext
    \/ SendWithRetry \/ Backoff \/ DrainQueue

Spec == Init /\ [][Next]_emailVars

-----------------------------------------------------------------------------
\* However enqueuing overlaps with draining, and whatever was enqueued before
\* Start, the worker never waits for a notification while a message waits for it.
NoMessageSleeps == worker = "wait" /\ queue # {} => notified
=============================================================================
