-------------------------- MODULE KeepAliveManager --------------------------
(***************************************************************************)
(* The two timers of include/ASIO_KeepAliveManager.hpp, what WSocketBase   *)
(* (include/ASIO_WSocket.hpp) does when they fire, and the event loop that *)
(* runs their handlers.  Time is counted in ticks.  A wait that expires is *)
(* still cancelled by cancel() until the loop polls; then its handler is   *)
(* queued and nothing recalls it.  A cancelled wait completes with         *)
(* operation_aborted, on which its handler returns at once: such handlers  *)
(* are left out.  Frames from the peer never reach the manager.            *)
(***************************************************************************)
EXTENDS Naturals, Sequences

CONSTANTS
    Periods,  \* the values of expired_time_ms_ an application sets
    MaxLag,   \* ticks for which the loop may leave due work undone
    MaxFlush, \* bound on the application's calls
    Horizon   \* ticks after which sincePing stops counting

ASSUME KeepAliveConstants ==
    /\ Periods \subseteq Nat \ {0}
    /\ MaxLag \in Nat
    /\ MaxFlush \in Nat
    /\ Horizon \in Nat /\ \A p \in Periods : p <= Horizon

Timer == {"expired", "timeout"}

VARIABLES
    period,     \* expired_time_ms_; timeout_ms_ is three times that
    waiting,    \* the timers with a wait that is neither cancelled nor queued
    left,       \* ticks until a timer expires
    ready,      \* the queued handlers
    lag,        \* ticks for which there has been due work
    flushes,    \* the application's calls so far
    sincePing,  \* ticks since the last keep-alive Ping
    late,       \* the loop has once left due work undone for two periods
    dead,       \* the peer has stopped answering
    down        \* the timeout has shut the socket down

vars == <<period, waiting, left, ready, lag, flushes, sincePing, late, dead, down>>

connection == <<dead, down>>

TypeOK ==
    /\ period \in Periods
    /\ waiting \in SUBSET Timer
    /\ left \in [Timer -> Nat]
    /\ ready \in Seq(Timer)
    /\ lag \in 0..MaxLag
    /\ flushes \in 0..MaxFlush
    /\ sincePing \in 0..Horizon
    /\ {late, dead, down} \subseteq BOOLEAN

Init ==
    /\ period \in Periods
    /\ waiting = {}
    /\ left = [t \in Timer |-> 0]
    /\ ready = <<>>
    /\ lag = 0
    /\ flushes = 0
    /\ sincePing = Horizon
    /\ late = FALSE
    /\ dead = FALSE
    /\ down = FALSE

-----------------------------------------------------------------------------
(* Calls.                                                                  *)

\* Mutant: the waits start before the expiry time is set.
Flush_NoExpiry(p) ==
    /\ waiting' = Timer
    /\ left' = [t \in Timer |-> IF t = "expired" THEN 0 ELSE 3 * p]

\* Cancel both waits, set both expiry times and wait again.
Flush(p) ==
    /\ waiting' = Timer
    /\ left' = [t \in Timer |-> IF t = "expired" THEN p ELSE 3 * p]

Start ==
    /\ flushes < MaxFlush
    /\ flushes' = flushes + 1
    /\ Flush(period)
    /\ UNCHANGED <<period, ready, lag, sincePing, late, connection>>

\* Mutant: the milliseconds are taken for seconds.
SetKeepAliveExpiredTime_Seconds(p) ==
    /\ flushes < MaxFlush
    /\ flushes' = flushes + 1
    /\ period' = 1000 * p
    /\ Flush(1000 * p)
    /\ UNCHANGED <<ready, lag, sincePing, late, connection>>

SetKeepAliveExpiredTime(p) ==
    /\ flushes < MaxFlush
    /\ flushes' = flushes + 1
    /\ period' = p
    /\ Flush(p)
    /\ UNCHANGED <<ready, lag, sincePing, late, connection>>

\* The peer hangs: no Pong and no other frame comes any more.
PeerDies ==
    /\ ~dead
    /\ dead' = TRUE
    /\ UNCHANGED <<period, waiting, left, ready, lag, flushes, sincePing, late, down>>

-----------------------------------------------------------------------------
(* The event loop.                                                         *)

DueTimers == {t \in waiting : left[t] = 0}

Queued(t) == IF t \in DueTimers THEN <<t>> ELSE <<>>

Due == ready # <<>> \/ DueTimers # {}

\* Time passes, while the loop is idle or busy with some other handler.
Tick ==
    /\ Due => lag < MaxLag
    /\ lag' = IF Due THEN lag + 1 ELSE 0
    /\ left' = [t \in Timer |-> IF left[t] > 0 THEN left[t] - 1 ELSE 0]
    /\ sincePing' = IF sincePing < Horizon THEN sincePing + 1 ELSE sincePing
    /\ late' = (late \/ lag' >= 2 * period)
    /\ UNCHANGED <<period, waiting, ready, flushes, connection>>

\* The loop has run what was queued and queues what has expired; of the two
\* timers, set by the same Flush, the expired timer is the first.
Poll ==
    /\ ready = <<>>
    /\ DueTimers # {}
    /\ ready' = Queued("expired") \o Queued("timeout")
    /\ waiting' = waiting \ DueTimers
    /\ UNCHANGED <<period, left, lag, flushes, sincePing, late, connection>>

Runs(t) == ready # <<>> /\ Head(ready) = t /\ ready' = Tail(ready)

\* Mutant: the ping goes out, but the timers are not set again.
OnExpiredTimerTimeout_NoFlush ==
    /\ Runs("expired")
    /\ sincePing' = 0
    /\ UNCHANGED <<period, waiting, left, lag, flushes, late, connection>>

\* OnKeepAliveExpired: Flush, then Ping, whatever the state of the context.
OnExpiredTimerTimeout ==
    /\ Runs("expired")
    /\ Flush(period)
    /\ sincePing' = 0
    /\ UNCHANGED <<period, lag, flushes, late, connection>>

\* OnKeepAliveTimeout: Close, then shut the socket down.  That Close asserts on
\* a Closed context, and that a session ends by this, is in module Session.
OnTimeoutTimerTimeout ==
    /\ Runs("timeout")
    /\ down' = TRUE
    /\ UNCHANGED <<period, waiting, left, lag, flushes, sincePing, late, dead>>

-----------------------------------------------------------------------------

Loop == Tick \/ Poll \/ OnExpiredTimerTimeout \/ OnTimeoutTimerTimeout

Next ==
    \/ Loop
    \/ Start
    \/ \E p \in Periods : SetKeepAliveExpiredTime(p)
    \/ PeerDies

Spec == Init /\ [][Next]_vars

\* Time passes and the loop runs what is queued.
FairSpec ==
    /\ Spec
    /\ WF_vars(Tick)
    /\ WF_vars(Poll)
    /\ WF_vars(OnExpiredTimerTimeout)
    /\ WF_vars(OnTimeoutTimerTimeout)

\* A connection is timed out only if the loop has once been two periods late:
\* on a prompt loop every expiry sets the timeout back before it can come.
TimesOutOnlyLate == down => late

\* Keep-alive pings come at least a period apart, however late the loop runs:
\* the period in force, unless the application has set the timers again while
\* the handler was queued, and then still one of the periods.
PingSpacing ==
    [][OnExpiredTimerTimeout =>
         /\ "expired" \notin waiting => sincePing >= period
         /\ \E p \in Periods : sincePing >= p]_vars

\* Once set, the timers go on pinging for ever.
PingsRecur == <>(waiting # {}) => []<><<OnExpiredTimerTimeout>>_vars

\* A peer that no longer answers is found out and the connection shut down.
DeadPeerDetected == (dead /\ waiting # {}) ~> down

=============================================================================
