----------------------- MODULE KeepAliveManagerProofs -----------------------
(***************************************************************************)
(* Proofs about KeepAliveManager, for any periods and any lag of the event *)
(* loop: type correctness, that the connection timeout fires only once the *)
(* loop has been two periods late, and that pings keep their distance.     *)
(***************************************************************************)
EXTENDS KeepAliveManager, SequenceTheorems, TLAPS

\* An expired timer that has not been served leaves the timeout two periods,
\* of which at most lag have passed.
Behind == left["timeout"] > 0 /\ left["timeout"] + lag >= 2 * period

\* The states of the timers: never started; counting; the expiry due; its
\* handler queued, with the timers set again by the application or not.
Timers ==
    \/ waiting = {} /\ ready = <<>>
    \/ /\ waiting = Timer /\ ready = <<>>
       /\ left["expired"] > 0 /\ left["timeout"] = left["expired"] + 2 * period
    \/ waiting = Timer /\ ready = <<>> /\ left["expired"] = 0 /\ Behind
    \/ "timeout" \in waiting /\ ready = <<"expired">> /\ Behind

\* Nothing is claimed of the timers once the loop has been late.
KInv ==
    /\ period \in Periods
    /\ waiting \in SUBSET Timer
    /\ left \in [Timer -> Nat]
    /\ lag \in 0..MaxLag
    /\ late \in BOOLEAN
    /\ ~late => Timers /\ ~down

LEMMA Constants ==
    ASSUME NEW p \in Periods
    PROVE  p \in Nat /\ p > 0 /\ MaxLag \in Nat
BY KeepAliveConstants DEF KeepAliveConstants

LEMMA FlushResets ==
    ASSUME NEW p \in Nat, p > 0, Flush(p)
    PROVE  /\ waiting' = Timer
           /\ left' \in [Timer -> Nat]
           /\ left'["expired"] = p /\ left'["timeout"] = 3 * p
BY DEF Flush, Timer

\* The domains of KInv, which hold on a late loop too.
Domains ==
    /\ period \in Periods
    /\ waiting \in SUBSET Timer
    /\ left \in [Timer -> Nat]
    /\ lag \in 0..MaxLag
    /\ late \in BOOLEAN

LEMMA KeepsDomains ==
    ASSUME Domains, [Next]_vars
    PROVE  Domains' /\ (late => late')
<1>1. period \in Nat /\ period > 0 /\ MaxLag \in Nat
    BY Constants DEF Domains
<1>2. ASSUME NEW p \in Periods, Flush(p)
      PROVE  waiting' \in SUBSET Timer /\ left' \in [Timer -> Nat]
  <2>1. p \in Nat /\ p > 0
    BY Constants
  <2> QED
    BY <1>2, <2>1, FlushResets
<1>3. CASE Start
    BY <1>2, <1>3 DEF Start, Domains
<1>4. ASSUME NEW p \in Periods, SetKeepAliveExpiredTime(p) PROVE Domains' /\ late' = late
    BY <1>2, <1>4 DEF SetKeepAliveExpiredTime, Domains
<1>5. CASE PeerDies
    BY <1>5 DEF PeerDies, Domains
<1>6. CASE Tick
  <2>1. left' \in [Timer -> Nat]
    BY <1>6 DEF Tick, Domains, Timer
  <2>2. lag' \in 0..MaxLag
    BY <1>1, <1>6 DEF Tick, Domains
  <2>3. late' \in BOOLEAN /\ (late => late') /\ UNCHANGED <<period, waiting>>
    BY <1>6 DEF Tick, Domains
  <2> QED
    BY <2>1, <2>2, <2>3 DEF Domains
<1>7. CASE Poll
    BY <1>7 DEF Poll, Domains, Timer
<1>8. CASE OnExpiredTimerTimeout
    BY <1>2, <1>8 DEF OnExpiredTimerTimeout, Domains
<1>9. CASE OnTimeoutTimerTimeout
    BY <1>9 DEF OnTimeoutTimerTimeout, Domains
<1>10. CASE UNCHANGED vars
    BY <1>10 DEF vars, Domains
<1> QED
    BY <1>3, <1>4, <1>5, <1>6, <1>7, <1>8, <1>9, <1>10 DEF Next, Loop

LEMMA KeepsKInv ==
    ASSUME KInv, [Next]_vars
    PROVE  KInv'
<1> SUFFICES ASSUME ~late' PROVE Timers' /\ ~down'
    BY KeepsDomains DEF KInv, Domains
<1>1. period \in Nat /\ period > 0 /\ MaxLag \in Nat
    BY Constants DEF KInv
<1>2. left["expired"] \in Nat /\ left["timeout"] \in Nat /\ lag \in Nat /\ lag <= MaxLag
    BY <1>1 DEF KInv, Timer
<1>3. Timers /\ ~down
    BY KeepsDomains DEF KInv, Domains
<1>4. ASSUME NEW p \in Periods, Flush(p), period' = p, UNCHANGED <<ready, lag, down>>
      PROVE  Timers' /\ ~down'
  <2>1. p \in Nat /\ p > 0
    BY Constants
  <2>2. /\ waiting' = Timer /\ left' \in [Timer -> Nat]
        /\ left'["expired"] = p /\ left'["timeout"] = 3 * p
    BY <1>4, <2>1, FlushResets
  <2>3. ready = <<>> \/ ready = <<"expired">>
    BY <1>3 DEF Timers
  <2>4. Timers'
    BY <1>2, <1>4, <2>1, <2>2, <2>3 DEF Timers, Behind, Timer
  <2> QED
    BY <1>3, <1>4, <2>4
<1>5. CASE Start
    BY <1>4, <1>5 DEF Start, KInv, connection
<1>6. ASSUME NEW p \in Periods, SetKeepAliveExpiredTime(p) PROVE Timers' /\ ~down'
    BY <1>4, <1>6 DEF SetKeepAliveExpiredTime, connection
<1>7. CASE PeerDies
    BY <1>3, <1>7 DEF PeerDies, Timers, Behind
<1>8. CASE Tick
  <2>1. /\ left' \in [Timer -> Nat]
        /\ left'["expired"] = IF left["expired"] > 0 THEN left["expired"] - 1 ELSE 0
        /\ left'["timeout"] = IF left["timeout"] > 0 THEN left["timeout"] - 1 ELSE 0
    BY <1>2, <1>8 DEF Tick, KInv, Timer
  <2>2. lag' = (IF Due THEN lag + 1 ELSE 0) /\ lag' < 2 * period
    <3>1. ~(lag' >= 2 * period)
      BY <1>8 DEF Tick
    <3>2. lag' = IF Due THEN lag + 1 ELSE 0
      BY <1>8 DEF Tick
    <3>3. lag' \in Nat
      BY <1>2, <3>2
    <3> QED
      BY <1>1, <3>1, <3>2, <3>3
  <2>3. UNCHANGED <<period, waiting, ready, down>>
    BY <1>8 DEF Tick, connection
  <2>4. Timers'
    <3>1. CASE waiting = {} /\ ready = <<>>
      BY <2>3, <3>1 DEF Timers
    <3>2. CASE /\ waiting = Timer /\ ready = <<>>
               /\ left["expired"] > 0 /\ left["timeout"] = left["expired"] + 2 * period
      <4>1. CASE left["expired"] > 1
        BY <1>1, <1>2, <2>1, <2>3, <3>2, <4>1 DEF Timers
      <4>2. CASE left["expired"] = 1
        BY <1>1, <1>2, <2>1, <2>2, <2>3, <3>2, <4>2 DEF Timers, Behind
      <4> QED
        BY <1>2, <3>2, <4>1, <4>2
    <3>3. CASE waiting = Timer /\ ready = <<>> /\ left["expired"] = 0 /\ Behind
      <4>1. Due
        BY <3>3 DEF Due, DueTimers, Timer
      <4> QED
        BY <1>1, <1>2, <2>1, <2>2, <2>3, <3>3, <4>1 DEF Timers, Behind
    <3>4. CASE "timeout" \in waiting /\ ready = <<"expired">> /\ Behind
      <4>1. Due
        BY <3>4 DEF Due
      <4> QED
        BY <1>1, <1>2, <2>1, <2>2, <2>3, <3>4, <4>1 DEF Timers, Behind
    <3> QED
      BY <1>3, <3>1, <3>2, <3>3, <3>4 DEF Timers
  <2> QED
    BY <1>3, <2>3, <2>4
<1>9. CASE Poll
  <2>1. waiting = Timer /\ ready = <<>> /\ left["expired"] = 0 /\ Behind
    <3>1. ready = <<>> /\ \E t \in waiting : left[t] = 0
      BY <1>9 DEF Poll, DueTimers
    <3>2. ~(left["expired"] > 0 /\ left["timeout"] = left["expired"] + 2 * period)
      BY <1>1, <1>2, <3>1 DEF KInv, Timer
    <3> QED
      BY <1>3, <3>1, <3>2 DEF Timers
  <2>2. DueTimers = {"expired"}
    BY <1>2, <2>1 DEF DueTimers, Timer, Behind
  <2>3. ready' = <<"expired">> /\ waiting' = {"timeout"}
    BY <1>9, <2>1, <2>2 DEF Poll, Queued, Timer
  <2>4. UNCHANGED <<period, left, lag, down>>
    BY <1>9 DEF Poll, connection
  <2> QED
    BY <1>3, <2>1, <2>3, <2>4 DEF Timers, Behind, Timer
<1>10. CASE OnExpiredTimerTimeout
  <2>1. ready = <<"expired">> /\ ready' = <<>>
    <3>1. ready # <<>> /\ ready' = Tail(ready)
      BY <1>10 DEF OnExpiredTimerTimeout, Runs
    <3>2. ready = <<"expired">>
      BY <1>3, <3>1 DEF Timers
    <3> QED
      BY <3>1, <3>2
  <2>2. /\ waiting' = Timer /\ left' \in [Timer -> Nat]
        /\ left'["expired"] = period /\ left'["timeout"] = 3 * period
    BY <1>1, <1>10, FlushResets DEF OnExpiredTimerTimeout
  <2>3. UNCHANGED <<period, lag, down>>
    BY <1>10 DEF OnExpiredTimerTimeout, connection
  <2> QED
    BY <1>1, <1>3, <2>1, <2>2, <2>3 DEF Timers
<1>11. ~OnTimeoutTimerTimeout
    BY <1>3 DEF OnTimeoutTimerTimeout, Runs, Timers
<1>12. CASE UNCHANGED vars
    BY <1>3, <1>12 DEF vars, connection, Timers, Behind
<1> QED
    BY <1>5, <1>6, <1>7, <1>8, <1>9, <1>10, <1>11, <1>12 DEF Next, Loop

(* A connection is timed out only after its event loop has left due work   *)
(* undone for two periods: not even a peer that has died brings it about.  *)
THEOREM TimeoutNeedsLateLoop == Spec => []TimesOutOnlyLate
<1>1. Init => KInv
  <2> SUFFICES ASSUME Init PROVE KInv
    OBVIOUS
  <2>1. left \in [Timer -> Nat]
    BY DEF Init
  <2>2. lag \in 0..MaxLag
    BY KeepAliveConstants DEF KeepAliveConstants, Init
  <2>3. Timers /\ ~down /\ late \in BOOLEAN
    BY DEF Init, Timers
  <2> QED
    BY <2>1, <2>2, <2>3 DEF KInv, Init
<1>2. KInv /\ [Next]_vars => KInv'
    BY KeepsKInv
<1>3. KInv => TimesOutOnlyLate
    BY DEF KInv, TimesOutOnlyLate
<1> QED
    BY <1>1, <1>2, <1>3, PTL DEF Spec
-----------------------------------------------------------------------------
(* Types and the spacing of pings.                                         *)

LEMMA TypeStep ==
    ASSUME TypeOK, [Next]_vars
    PROVE  TypeOK'
<1>1. Domains'
    BY KeepsDomains DEF TypeOK, Domains
<1>2. Horizon \in Nat /\ MaxFlush \in Nat
    BY KeepAliveConstants DEF KeepAliveConstants
<1>3. ready' \in Seq(Timer)
  <2>1. CASE Poll
    <3>1. ASSUME NEW t \in Timer PROVE Queued(t) \in Seq(Timer)
      <4>1. <<t>> \in Seq(Timer) /\ <<>> \in Seq(Timer)
        OBVIOUS
      <4> QED
        BY <4>1 DEF Queued
    <3>2. Queued("expired") \in Seq(Timer) /\ Queued("timeout") \in Seq(Timer)
      BY <3>1 DEF Timer
    <3> QED
      BY <2>1, <3>2 DEF Poll
  <2>2. CASE OnExpiredTimerTimeout \/ OnTimeoutTimerTimeout
    <3>1. ready \in Seq(Timer) /\ ready # <<>> /\ ready' = Tail(ready)
      BY <2>2 DEF OnExpiredTimerTimeout, OnTimeoutTimerTimeout, Runs, TypeOK
    <3> QED
      BY <3>1
  <2>3. CASE UNCHANGED ready
    BY <2>3 DEF TypeOK
  <2> QED
    BY <2>1, <2>2, <2>3
       DEF Next, Loop, Start, SetKeepAliveExpiredTime, PeerDies, Tick, vars
<1>4. flushes' \in 0..MaxFlush /\ sincePing' \in 0..Horizon
    BY <1>2 DEF TypeOK, Next, Loop, Start, SetKeepAliveExpiredTime, PeerDies, Tick, Poll,
       OnExpiredTimerTimeout, OnTimeoutTimerTimeout, vars
<1>5. {late', dead', down'} \subseteq BOOLEAN
  <2>1. dead \in BOOLEAN /\ down \in BOOLEAN
    BY DEF TypeOK
  <2>2. dead' \in BOOLEAN /\ down' \in BOOLEAN
    BY <2>1 DEF Next, Loop, Start, SetKeepAliveExpiredTime, PeerDies, Tick, Poll,
       OnExpiredTimerTimeout, OnTimeoutTimerTimeout, vars, connection
  <2> QED
    BY <1>1, <2>2 DEF Domains
<1> QED
    BY <1>1, <1>3, <1>4, <1>5 DEF TypeOK, Domains

(* The periods, waits, queued handlers and counters of the manager keep    *)
(* their types: no call or handler sets a period the application did not.  *)
THEOREM TypeCorrect == Spec => []TypeOK
<1>1. Init => TypeOK
  <2> SUFFICES ASSUME Init PROVE TypeOK
    OBVIOUS
  <2>1. /\ MaxLag \in Nat /\ MaxFlush \in Nat /\ Horizon \in Nat
    BY KeepAliveConstants DEF KeepAliveConstants
  <2>2. left \in [Timer -> Nat] /\ ready \in Seq(Timer)
    BY DEF Init
  <2>3. lag \in 0..MaxLag /\ flushes \in 0..MaxFlush /\ sincePing \in 0..Horizon
    BY <2>1 DEF Init
  <2>4. {late, dead, down} \subseteq BOOLEAN
    BY DEF Init
  <2> QED
    BY <2>2, <2>3, <2>4 DEF Init, TypeOK
<1>2. TypeOK /\ [Next]_vars => TypeOK'
    BY TypeStep
<1> QED
    BY <1>1, <1>2, PTL DEF Spec

\* When a ping's handler runs, the period in force has passed since the last
\* ping, or a period of before the timers were set again.
Apart ==
    /\ "expired" \notin waiting => sincePing >= period
    /\ \E p \in Periods : sincePing >= p

\* Since the last ping a period has passed when the expiry is queued, and will
\* have passed when a wait for it ends.
Spaced ==
    /\ \A i \in 1..Len(ready) : ready[i] = "expired" => i = 1 /\ Apart
    /\ "expired" \in waiting => sincePing + left["expired"] >= period

LEMMA JoinPair ==
    ASSUME NEW a, NEW b
    PROVE  <<a>> \o <<b>> = <<a, b>>
<1> DEFINE S == {a, b}
<1>1. <<a>> \in Seq(S) /\ <<b>> \in Seq(S) /\ <<a, b>> \in Seq(S)
    OBVIOUS
<1>2. <<a>> \o <<b>> \in Seq(S) /\ Len(<<a>> \o <<b>>) = Len(<<a, b>>)
    BY <1>1, ConcatProperties
<1>3. \A i \in 1..2 : (<<a>> \o <<b>>)[i] = <<a, b>>[i]
    BY <1>1, ConcatProperties
<1> QED
    BY <1>1, <1>2, <1>3, SeqEqual

LEMMA KeepsSpaced ==
    ASSUME TypeOK, Spaced, [Next]_vars
    PROVE  Spaced'
<1>1. /\ Horizon \in Nat /\ Periods \subseteq Nat /\ \A p \in Periods : p > 0 /\ p <= Horizon
      /\ sincePing \in Nat /\ left["expired"] \in Nat /\ period \in Periods
      /\ sincePing <= Horizon
    BY KeepAliveConstants DEF KeepAliveConstants, TypeOK, Timer
<1>2. ASSUME NEW p \in Periods, Flush(p), sincePing' \in Nat
      PROVE  sincePing' + left'["expired"] >= p
  <2>1. p \in Nat /\ p > 0
    BY Constants
  <2>2. left'["expired"] = p
    BY <1>2, <2>1, FlushResets
  <2>3. sincePing' \in Nat
    BY <1>2
  <2>4. ASSUME NEW i \in Nat, NEW j \in Nat PROVE i + j >= j
    OBVIOUS
  <2> QED
    BY <2>1, <2>2, <2>3, <2>4
<1>3. ASSUME NEW p \in Periods, Flush(p), period' = p, UNCHANGED <<ready, sincePing>>
      PROVE  Spaced'
  <2>1. sincePing' + left'["expired"] >= period'
    BY <1>1, <1>2, <1>3
  <2>2. "expired" \in waiting'
    BY <1>3 DEF Flush, Timer
  <2>3. ASSUME Apart PROVE Apart'
    BY <1>3, <2>2, <2>3 DEF Apart
  <2> QED
    BY <1>3, <2>1, <2>3 DEF Spaced
<1>4. CASE Start \/ \E p \in Periods : SetKeepAliveExpiredTime(p)
    BY <1>1, <1>3, <1>4 DEF Start, SetKeepAliveExpiredTime
<1>5. CASE PeerDies
    BY <1>5 DEF PeerDies, Spaced, Apart
<1>6. CASE Tick
  <2>1. /\ left'["expired"] = IF left["expired"] > 0 THEN left["expired"] - 1 ELSE 0
        /\ sincePing' = IF sincePing < Horizon THEN sincePing + 1 ELSE sincePing
        /\ UNCHANGED <<period, ready, waiting>>
    BY <1>6 DEF Tick, Timer
  <2>2. ASSUME NEW p \in Periods, sincePing + left["expired"] >= p
        PROVE  sincePing' + left'["expired"] >= p
    BY <1>1, <2>1, <2>2
  <2>3. ASSUME NEW p \in Periods, sincePing >= p PROVE sincePing' >= p
    BY <1>1, <2>1, <2>3
  <2>4. ASSUME Apart PROVE Apart'
    BY <1>1, <2>1, <2>3, <2>4 DEF Apart
  <2> QED
    BY <1>1, <2>1, <2>2, <2>4 DEF Spaced
<1>7. CASE Poll
  <2>1. UNCHANGED <<period, left, sincePing>> /\ waiting' \subseteq waiting
    BY <1>7 DEF Poll
  <2>2. ASSUME "expired" \in DueTimers PROVE Apart'
    <3>1. "expired" \in waiting /\ left["expired"] = 0
      BY <2>2 DEF DueTimers
    <3>2. sincePing >= period
      BY <1>1, <3>1 DEF Spaced
    <3> QED
      BY <1>1, <2>1, <3>2 DEF Apart
  <2>3. \/ ready' = <<>> \/ ready' = <<"timeout">>
        \/ "expired" \in DueTimers /\ ready' \in {<<"expired">>, <<"expired", "timeout">>}
    <3>1. ready' = Queued("expired") \o Queued("timeout")
      BY <1>7 DEF Poll
    <3>2. <<"timeout">> \in Seq(Timer) /\ <<"expired">> \in Seq(Timer) /\ <<>> \in Seq(Timer)
      BY DEF Timer
    <3>3. /\ <<>> \o <<>> = <<>> /\ <<>> \o <<"timeout">> = <<"timeout">>
          /\ <<"expired">> \o <<>> = <<"expired">>
      BY <3>2, ConcatEmptySeq
    <3>4. <<"expired">> \o <<"timeout">> = <<"expired", "timeout">>
      BY JoinPair
    <3> QED
      BY <3>1, <3>3, <3>4 DEF Queued
  <2>4. \A i \in 1..Len(ready') : ready'[i] = "expired" => i = 1 /\ "expired" \in DueTimers
    BY <2>3
  <2> QED
    BY <2>1, <2>2, <2>4 DEF Spaced
<1>8. CASE OnExpiredTimerTimeout
  <2>1. sincePing' + left'["expired"] >= period'
    <3>1. Flush(period) /\ sincePing' = 0 /\ period' = period
      BY <1>8 DEF OnExpiredTimerTimeout
    <3> QED
      BY <1>1, <1>2, <3>1
  <2>2. \A i \in 1..Len(ready') : ready'[i] # "expired"
    BY <1>8 DEF OnExpiredTimerTimeout, Runs, Spaced, TypeOK
  <2> QED
    BY <2>1, <2>2 DEF Spaced
<1>9. CASE OnTimeoutTimerTimeout
  <2>1. \A i \in 1..Len(ready') : ready'[i] # "expired"
    BY <1>9 DEF OnTimeoutTimerTimeout, Runs, Spaced, TypeOK
  <2>2. UNCHANGED <<period, waiting, left, sincePing>>
    BY <1>9 DEF OnTimeoutTimerTimeout
  <2> QED
    BY <2>1, <2>2 DEF Spaced
<1>10. CASE UNCHANGED vars
    BY <1>10 DEF vars, Spaced, Apart
<1> QED
    BY <1>4, <1>5, <1>6, <1>7, <1>8, <1>9, <1>10 DEF Next, Loop

(* Two keep-alive pings are a period apart, however late the loop runs:    *)
(* the period in force, or, if the application has set the timers again    *)
(* while the handler was queued, one of the periods.                       *)
THEOREM PingsKeepDistance == Spec => PingSpacing
<1>1. Init => Spaced
    BY DEF Init, Spaced
<1>2. TypeOK /\ Spaced /\ [Next]_vars => Spaced'
    BY KeepsSpaced
<1>3. TypeOK /\ Spaced /\ [Next]_vars
      => [OnExpiredTimerTimeout =>
            /\ "expired" \notin waiting => sincePing >= period
            /\ \E p \in Periods : sincePing >= p]_vars
  <2> SUFFICES ASSUME TypeOK, Spaced, OnExpiredTimerTimeout
               PROVE  Apart
    BY DEF Apart
  <2>1. ready # <<>> /\ Head(ready) = "expired" /\ ready \in Seq(Timer)
    BY DEF OnExpiredTimerTimeout, Runs, TypeOK
  <2>2. 1 \in 1..Len(ready) /\ ready[1] = "expired"
    BY <2>1
  <2> QED
    BY <2>2 DEF Spaced
<1> QED
    BY <1>1, <1>2, <1>3, TypeCorrect, PTL DEF Spec, PingSpacing
=============================================================================
