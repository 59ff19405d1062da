----------------------------- MODULE TransportLink -----------------------------
(***************************************************************************)
(* One MQTT transport: the loop that connects, reads and backs off, the    *)
(* keepalive goroutine of a subscription, the executor's actuators, and    *)
(* the ingest workers, which report on the transport's health.  They share *)
(* the connection, the health record and the transport's control state,    *)
(* each under a lock of its own, and a step is one section of such a lock. *)
(***************************************************************************)
EXTENDS Integers, FiniteSets

CONSTANTS Socket,          \* connections the operating system gives out
          NoSocket,        \* a nil connection
          Base, Cap,       \* baseBackoff and the 30 s of jitterBackoff, in ms
          Half,            \* half of the values of a time.Duration, 2^63 in the code
          RetryThreshold,
          QueueCap,        \* packets the ingest channel and its workers can hold
          MaxFailures,     \* bound: where the count of failures stops
          MaxRestarts,     \* bound: restart actions
          MaxLinkFaults    \* bound: outages of the broker, refusals and stalls

ASSUME LinkAssumption ==
          /\ IsFiniteSet(Socket) /\ NoSocket \notin Socket
          /\ Base \in Nat \ {0} /\ Cap \in Nat \ {0}
          /\ Half \in Nat \ {0} /\ 2 * Base < Half /\ Cap + 1000 < Half
          /\ RetryThreshold \in Nat \ {0}
          /\ QueueCap \in Nat
          /\ MaxFailures \in Nat \ {0} /\ MaxRestarts \in Nat /\ MaxLinkFaults \in Nat

VARIABLES
    pc, failures, recorded,   \* locals of runTransport
    wait,         \* what its timer was set to
    conn,         \* m.conn
    mine,         \* Connect's local conn
    open,         \* the sockets that are open
    health,       \* State, FailureCount > 0 and TotalMessages > 0 of m.health
    ping,         \* keepAliveLoop: whether it runs, whether a ping's report is due
    multiplier, raise,   \* backoffMultiplier, and how backoffUntil stands to the clock
    interrupt,    \* whether interruptCh holds its one interrupt
    exec, held,   \* the executor in a restart, and the connection it took
    queue,        \* packets in ingestCh and with the workers
    broker,       \* whether the broker answers
    linkFaults,
    restarts,     \* history: restart actions that were run
    cut,          \* history: waits that an interrupt ended
    told,         \* history: threshold observations since the last connection
    panicked      \* history: the process has died of a nil connection

loop == <<pc, failures, recorded, wait>>
sockets == <<conn, mine, open>>
control == <<multiplier, raise, interrupt>>
executor == <<exec, held, restarts>>
linkVars == <<pc, failures, recorded, wait, conn, mine, open, health, ping, multiplier, raise,
              interrupt, exec, held, queue, broker, linkFaults, restarts, cut, told, panicked>>

Working == {"dialling", "handshake", "subscribe", "suback", "reading", "header"}
Pc == Working \cup {"top", "refused", "unsubscribed", "closing", "backoff", "sleeping"}
HealthState == {"configured", "connecting", "idle", "live", "retrying", "failed"}

Fresh == [state |-> "configured", failing |-> FALSE, got |-> FALSE]
Silent == [on |-> FALSE, sent |-> FALSE]

LinkInit ==
    /\ pc = "top" /\ failures = 0 /\ recorded = FALSE /\ wait = 0
    /\ conn = NoSocket /\ mine = NoSocket /\ open = {}
    /\ health = Fresh
    /\ ping = Silent
    /\ multiplier = 1 /\ raise = "none" /\ interrupt = FALSE
    /\ exec = "idle" /\ held = NoSocket
    /\ queue = 0
    /\ broker \in BOOLEAN
    /\ linkFaults = 0 /\ restarts = 0 /\ cut = 0 /\ told = 0 /\ panicked = FALSE

LinkFault == linkFaults < MaxLinkFaults /\ linkFaults' = linkFaults + 1

(* Something on the way to the broker fails: by itself, or because it is down. *)
Trouble == \/ ~broker /\ UNCHANGED linkFaults
           \/ broker /\ LinkFault

Connected == conn # NoSocket /\ conn \in open
Broken == \/ ~Connected /\ UNCHANGED linkFaults
          \/ Trouble

------------------------------------------------------------------------------
(* The backoff. *)

Wrap(n) == ((n + Half) % (2 * Half)) - Half

(* base << k in the width of a duration. *)
Shift(base, k) ==
    LET f[i \in 0..k] == IF i = 0 THEN base ELSE Wrap(2 * f[i - 1])
    IN  f[k]

Jitter(attempt) == (attempt * 137) % 1000

(* Mutant: the jitter shortens the wait. *)
JitterBackoffLess(base, attempt) ==
    LET max == Shift(base, attempt - 1)
    IN  (IF max > Cap THEN Cap ELSE max) - Jitter(attempt)

(* Mutant: the cap is forgotten. *)
JitterBackoffUncapped(base, attempt) == Shift(base, attempt - 1) + Jitter(attempt)

JitterBackoff(base, attempt) ==
    LET max == Shift(base, attempt - 1)
    IN  (IF max > Cap THEN Cap ELSE max) + Jitter(attempt)

CurrentMultiplier == IF raise = "running" THEN multiplier ELSE 1

------------------------------------------------------------------------------
(* What the goroutines write into the health record. *)

Reporting(state) == [state |-> state, failing |-> health.failing, got |-> health.got]
LiveOrIdle == IF health.got THEN "live" ELSE "idle"

(* BeginFailureEpisode and the state that goes with it. *)
Failing(state) == [state |-> state, failing |-> TRUE, got |-> health.got]

(* Mutant: it is told at every failure from the threshold on. *)
CountFailureAnew ==
    LET n == IF failures < MaxFailures THEN failures + 1 ELSE failures
    IN  /\ failures' = n
        /\ recorded' = (recorded \/ n >= RetryThreshold)
        /\ health' = Failing(IF recorded' THEN "failed" ELSE "retrying")
        /\ told' = IF recorded' /\ told < 2 THEN told + 1 ELSE told

(* The part that a failed Connect and a failed Subscribe share: the failure is
   counted, and at the threshold it is told, once.                           *)
CountFailure ==
    LET n == IF failures < MaxFailures THEN failures + 1 ELSE failures
    IN  /\ failures' = n
        /\ recorded' = (recorded \/ n >= RetryThreshold)
        /\ health' = Failing(IF recorded' THEN "failed" ELSE "retrying")
        /\ told' = IF recorded' /\ ~recorded THEN told + 1 ELSE told

------------------------------------------------------------------------------
(* runTransport and the transport it drives. *)

(* Mutant: past the threshold the loop gives up. *)
BeginConnectUnlessFailed ==
    /\ pc = "top" /\ ~recorded /\ pc' = "dialling"
    /\ health' = Reporting("connecting")
    /\ UNCHANGED <<failures, recorded, wait, sockets, ping, control, executor, queue,
                   broker, linkFaults, cut, told, panicked>>

(* Mutant: a transport that dials already counts as connected. *)
BeginConnectAsIdle ==
    /\ pc = "top" /\ pc' = "dialling"
    /\ health' = Reporting(LiveOrIdle)
    /\ UNCHANGED <<failures, recorded, wait, sockets, ping, control, executor, queue,
                   broker, linkFaults, cut, told, panicked>>

BeginConnect ==
    /\ pc = "top" /\ pc' = "dialling"
    /\ health' = Reporting("connecting")
    /\ UNCHANGED <<failures, recorded, wait, sockets, ping, control, executor, queue,
                   broker, linkFaults, cut, told, panicked>>

Dial ==
    /\ pc = "dialling"
    /\ \/ /\ broker
          /\ \E s \in Socket \ (open \cup {held}) :
                mine' = s /\ conn' = s /\ open' = open \cup {s}
          /\ pc' = "handshake"
          /\ UNCHANGED <<health, linkFaults>>
       \/ /\ Trouble
          /\ pc' = "refused"
          /\ health' = Reporting("retrying")
          /\ UNCHANGED sockets
    /\ UNCHANGED <<failures, recorded, wait, ping, control, executor, queue,
                   broker, cut, told, panicked>>

(* Mutant: the socket of a refused handshake is left open. *)
LeavesOpen == open

AfterRefusal == open \ {mine}

(* CONNECT and CONNACK; a refused connection is closed and m.conn keeps it. *)
Handshake ==
    /\ pc = "handshake"
    /\ mine' = NoSocket
    /\ \/ /\ broker /\ Connected
          /\ pc' = "subscribe"
          /\ failures' = 0 /\ recorded' = FALSE /\ told' = 0
          /\ health' = [state |-> "idle", failing |-> FALSE, got |-> health.got]
          /\ UNCHANGED <<open, linkFaults>>
       \/ /\ Broken
          /\ pc' = "refused"
          /\ open' = AfterRefusal
          /\ UNCHANGED <<failures, recorded, told, health>>
    /\ UNCHANGED <<wait, conn, ping, control, executor, queue, broker, cut, panicked>>

ConnectFailed ==
    /\ pc = "refused" /\ pc' = "backoff"
    /\ CountFailure
    /\ UNCHANGED <<wait, sockets, ping, control, executor, queue, broker, linkFaults, cut, panicked>>

(* The SUBSCRIBE, and the first byte of its SUBACK. *)
Subscribe ==
    /\ pc = "subscribe"
    /\ \/ /\ broker /\ Connected
          /\ pc' = "suback"
          /\ UNCHANGED <<health, linkFaults>>
       \/ /\ Broken
          /\ pc' = "unsubscribed"
          /\ health' \in {health, Failing("retrying")}
    /\ UNCHANGED <<failures, recorded, wait, sockets, ping, control, executor, queue,
                   broker, cut, told, panicked>>

(* The rest of the SUBACK; then the keepalive goroutine starts. *)
ExpectSubAck ==
    /\ pc = "suback"
    /\ \/ /\ broker /\ Connected
          /\ pc' = "reading"
          /\ health' = Reporting(LiveOrIdle)
          /\ ping' = [on |-> TRUE, sent |-> ping.sent]
          /\ UNCHANGED linkFaults
       \/ /\ Broken
          /\ pc' = "unsubscribed"
          /\ health' = Failing("retrying")
          /\ UNCHANGED ping
    /\ UNCHANGED <<failures, recorded, wait, sockets, control, executor, queue,
                   broker, cut, told, panicked>>

(* The first byte of a packet. *)
ReadHeader ==
    /\ pc = "reading" /\ broker /\ Connected
    /\ pc' = "header"
    /\ UNCHANGED <<failures, recorded, wait, sockets, health, ping, control, executor, queue,
                   broker, linkFaults, cut, told, panicked>>

(* A read times out, perhaps within a packet, whose rest is then read as one. *)
Stall ==
    /\ pc \in {"reading", "header"} /\ Connected /\ Trouble
    /\ pc' = "reading"
    /\ health' = Reporting(LiveOrIdle)
    /\ UNCHANGED <<failures, recorded, wait, sockets, ping, control, executor, queue,
                   broker, cut, told, panicked>>

(* A read fails, or times out once too often.  The connection may be gone after
   the length of the packet has been read.                                    *)
StopReading ==
    /\ pc \in {"reading", "header"}
    /\ Broken
    /\ pc' = "unsubscribed"
    /\ \/ health' = Failing("retrying")
       \/ pc = "reading" /\ Connected /\ health' = Failing("failed")
    /\ UNCHANGED <<failures, recorded, wait, sockets, ping, control, executor, queue,
                   broker, cut, told, panicked>>

(* The rest of a packet: a heartbeat, or a publish for the ingest channel,
   which takes it or is full.                                              *)
ReadPacket ==
    /\ pc = "header" /\ broker /\ Connected
    /\ pc' = "reading"
    /\ \/ health' = Reporting(LiveOrIdle) /\ UNCHANGED queue
       \/ /\ queue < QueueCap /\ queue' = queue + 1
          /\ health' = IF health.got THEN health ELSE Reporting("idle")
       \/ /\ queue = QueueCap
          /\ health' = Reporting(LiveOrIdle)
          /\ UNCHANGED queue
    /\ UNCHANGED <<failures, recorded, wait, sockets, ping, control, executor,
                   broker, linkFaults, cut, told, panicked>>

(* readRemaining, of a packet or of the SUBACK, takes m.conn as it finds it: the
   process dies of a nil one, and another takes its place.                  *)
Panic ==
    /\ pc \in {"suback", "header"} /\ conn = NoSocket
    /\ panicked' = TRUE
    /\ pc' = "top" /\ failures' = 0 /\ recorded' = FALSE /\ wait' = 0
    /\ mine' = NoSocket /\ open' = {} /\ conn' = NoSocket
    /\ health' = Fresh /\ ping' = Silent
    /\ multiplier' = 1 /\ raise' = "none" /\ interrupt' = FALSE
    /\ exec' = "idle" /\ held' = NoSocket
    /\ queue' = 0 /\ told' = 0
    /\ UNCHANGED <<broker, linkFaults, restarts, cut>>

SubscribeFailed ==
    /\ pc = "unsubscribed" /\ pc' = "closing"
    /\ CountFailure
    /\ UNCHANGED <<wait, sockets, ping, control, executor, queue, broker, linkFaults, cut, panicked>>

Close ==
    /\ pc = "closing" /\ pc' = "backoff"
    /\ conn' = NoSocket
    /\ open' = open \ {conn}
    /\ health' = IF conn = NoSocket THEN health ELSE Reporting("retrying")
    /\ UNCHANGED <<failures, recorded, wait, mine, ping, control, executor, queue,
                   broker, linkFaults, cut, told, panicked>>

(* effectiveBackoff puts a multiplier whose time is over back to 1. *)
Backoff ==
    /\ pc = "backoff" /\ pc' = "sleeping"
    /\ wait' = JitterBackoff(CurrentMultiplier * Base, IF failures = 0 THEN 1 ELSE failures)
    /\ multiplier' = CurrentMultiplier
    /\ UNCHANGED <<failures, recorded, sockets, health, ping, raise, interrupt, executor, queue,
                   broker, linkFaults, cut, told, panicked>>

(* Mutant: the timer alone ends the wait and the interrupt stays. *)
WakeKeepingIt ==
    /\ interrupt /\ cut' = cut + 1
    /\ UNCHANGED interrupt

Wake == interrupt /\ interrupt' = FALSE /\ cut' = cut + 1

(* sleepWithControl ends by its timer or by an interrupt. *)
EndSleep ==
    /\ pc = "sleeping" /\ pc' = "top"
    /\ Wake \/ UNCHANGED <<interrupt, cut>>
    /\ wait' = 0
    /\ UNCHANGED <<failures, recorded, sockets, health, ping, multiplier, raise, executor, queue,
                   broker, linkFaults, told, panicked>>

(* Loop steps that the loop cannot but take, and those the network decides. *)
LoopStep ==
    \/ BeginConnect \/ Dial \/ Handshake \/ ConnectFailed \/ Subscribe \/ ExpectSubAck
    \/ ReadHeader \/ ReadPacket \/ StopReading \/ Panic \/ SubscribeFailed \/ Close \/ Backoff \/ EndSleep

------------------------------------------------------------------------------
(* keepAliveLoop. *)

(* A ping is written; the report of it comes later. *)
Ping ==
    /\ ping.on /\ ~ping.sent /\ Connected
    /\ ping' = [on |-> ping.on, sent |-> TRUE]
    /\ UNCHANGED <<loop, sockets, health, control, executor, queue, broker, linkFaults, cut, told, panicked>>

PingSent ==
    /\ ping.sent
    /\ ping' = [on |-> ping.on, sent |-> FALSE]
    /\ health' = Reporting(LiveOrIdle)
    /\ UNCHANGED <<loop, sockets, control, executor, queue, broker, linkFaults, cut, told, panicked>>

(* Mutant: it also takes the connection away. *)
PingFailsAndCloses ==
    /\ ping.on /\ ~ping.sent
    /\ Broken
    /\ ping' = Silent
    /\ health' = Failing("retrying")
    /\ conn' = NoSocket /\ open' = open \ {conn}
    /\ UNCHANGED <<loop, mine, control, executor, queue, broker, cut, told, panicked>>

(* The write fails: no further pings on this connection. *)
PingFails ==
    /\ ping.on /\ ~ping.sent
    /\ Broken
    /\ ping' = Silent
    /\ health' = Failing("retrying")
    /\ UNCHANGED <<loop, sockets, control, executor, queue, broker, cut, told, panicked>>

(* The subscription is over. *)
PingEnds ==
    /\ ping.on /\ pc \notin {"reading", "header"}
    /\ ping' = [on |-> FALSE, sent |-> ping.sent]
    /\ UNCHANGED <<loop, sockets, health, control, executor, queue, broker, linkFaults, cut, told, panicked>>

------------------------------------------------------------------------------
(* executeControlAction on this transport. *)

(* restart_transport and resubscribe_transport: Close takes the connection ... *)
TakeConnection ==
    /\ exec = "idle" /\ restarts < MaxRestarts
    /\ restarts' = restarts + 1
    /\ held' = conn /\ conn' = NoSocket
    /\ exec' = IF conn = NoSocket THEN "signal" ELSE "closing"
    /\ UNCHANGED <<loop, mine, open, health, ping, control, queue, broker, linkFaults, cut, told, panicked>>

(* ... reports it, *)
ReportTaken ==
    /\ exec = "closing" /\ exec' = "reported"
    /\ health' = Reporting("retrying")
    /\ UNCHANGED <<loop, sockets, ping, control, held, restarts, queue, broker, linkFaults,
                   cut, told, panicked>>

(* and closes it, *)
CloseTaken ==
    /\ exec = "reported" /\ exec' = "signal"
    /\ open' = open \ {held} /\ held' = NoSocket
    /\ UNCHANGED <<loop, conn, mine, health, ping, control, restarts, queue, broker, linkFaults,
                   cut, told, panicked>>

(* and then the wait is interrupted, unless an interrupt is there already. *)
Interrupt ==
    /\ exec = "signal" /\ exec' = "idle"
    /\ interrupt' = TRUE
    /\ UNCHANGED <<loop, sockets, health, ping, multiplier, raise, held, restarts, queue,
                   broker, linkFaults, cut, told, panicked>>

(* backoff_increase, perhaps run when its time is over, and backoff_reset. *)
SetBackoff ==
    /\ exec = "idle"
    /\ multiplier' = 2 /\ raise' \in {"running", "past"}
    /\ UNCHANGED <<loop, sockets, health, ping, interrupt, executor, queue, broker, linkFaults, cut, told, panicked>>

ClearBackoff ==
    /\ exec = "idle"
    /\ multiplier' = 1 /\ raise' = "none"
    /\ UNCHANGED <<loop, sockets, health, ping, interrupt, executor, queue, broker, linkFaults, cut, told, panicked>>

BackoffExpires ==
    /\ raise = "running" /\ raise' = "past"
    /\ UNCHANGED <<loop, sockets, health, ping, multiplier, interrupt, executor, queue,
                   broker, linkFaults, cut, told, panicked>>

------------------------------------------------------------------------------
(* The ingest workers. *)

(* The message is stored: MarkIngest; or refused, suppressed or known: MarkDrop. *)
EndIngest ==
    /\ queue > 0 /\ queue' = queue - 1
    /\ health' \in {[state |-> "live", failing |-> FALSE, got |-> TRUE], Reporting(LiveOrIdle)}
    /\ UNCHANGED <<loop, sockets, ping, control, executor, broker, linkFaults, cut, told, panicked>>

------------------------------------------------------------------------------
BrokerFails ==
    /\ broker /\ LinkFault /\ broker' = FALSE
    /\ UNCHANGED <<loop, sockets, health, ping, control, executor, queue, cut, told, panicked>>

BrokerReturns ==
    /\ ~broker /\ broker' = TRUE
    /\ UNCHANGED <<loop, sockets, health, ping, control, executor, queue, linkFaults, cut, told, panicked>>

LinkNext ==
    \/ LoopStep \/ Stall
    \/ Ping \/ PingSent \/ PingFails \/ PingEnds
    \/ TakeConnection \/ ReportTaken \/ CloseTaken \/ Interrupt
    \/ SetBackoff \/ ClearBackoff \/ BackoffExpires
    \/ EndIngest
    \/ BrokerFails \/ BrokerReturns

LinkSpec == LinkInit /\ [][LinkNext]_linkVars

(* Goroutines go on, timers fire and reads end. *)
LinkFairness ==
    /\ WF_linkVars(LoopStep)
    /\ WF_linkVars(PingSent) /\ WF_linkVars(PingEnds) /\ WF_linkVars(EndIngest)
    /\ WF_linkVars(ReportTaken) /\ WF_linkVars(CloseTaken) /\ WF_linkVars(Interrupt)

FairLink == LinkSpec /\ LinkFairness

------------------------------------------------------------------------------
LinkTypeOK ==
    /\ pc \in Pc /\ failures \in 0..MaxFailures /\ recorded \in BOOLEAN
    /\ wait \in -Half..(Cap + 999)
    /\ conn \in Socket \cup {NoSocket} /\ mine \in Socket \cup {NoSocket}
    /\ held \in Socket \cup {NoSocket} /\ open \in SUBSET Socket
    /\ health \in [state : HealthState, failing : BOOLEAN, got : BOOLEAN]
    /\ ping \in [on : BOOLEAN, sent : BOOLEAN]
    /\ multiplier \in {1, 2} /\ raise \in {"none", "running", "past"}
    /\ interrupt \in BOOLEAN /\ exec \in {"idle", "closing", "reported", "signal"}
    /\ queue \in 0..QueueCap
    /\ broker \in BOOLEAN /\ linkFaults \in 0..MaxLinkFaults
    /\ restarts \in 0..MaxRestarts /\ cut \in 0..MaxRestarts
    /\ told \in 0..2 /\ panicked \in BOOLEAN

(* No connection is lost open: whichever of the loop and the executor takes it out
   of the transport closes it, in every order of a restart, a refused handshake, a
   failed subscription and the next dial.                                     *)
NoLeak == open \subseteq {conn, mine, held}

(* A restart ends at most one wait: an interrupt that comes while nobody waits is
   kept for the next wait, and one that finds another in the channel is dropped. *)
InterruptsEndOneWait == cut + (IF interrupt THEN 1 ELSE 0) + (IF exec = "idle" THEN 0 ELSE 1) <= restarts

(* An outage is told of once, at the threshold. *)
ThresholdIsTold == told = IF failures >= RetryThreshold THEN 1 ELSE 0

(* base * 2^k, which no width limits. *)
Doubled(base, k) ==
    LET f[i \in 0..k] == IF i = 0 THEN base ELSE 2 * f[i - 1]
    IN  f[k]

(* A raise or a shift never makes the transport wait for longer than the cap, and
   as long as the doubled backoff fits the width of a duration, it waits for at
   least its base or the cap.  Past that width the wait may be none at all.    *)
WaitIsBounded ==
    pc = "sleeping" => /\ wait <= Cap + 999
                       /\ Doubled(2 * Base, failures - 1) < Half =>
                             wait >= IF Base < Cap THEN Base ELSE Cap

(* The reader loses its connection only to a restart: neither the keepalive nor
   the loop takes it away, so the process dies of nothing else.               *)
OnlyRestartsKill == panicked \/ (pc \in {"suback", "header"} /\ conn = NoSocket) => restarts > 0

(* When the broker stays, the transport reads from it again and again. *)
Reconnects == <>[]broker => []<>(pc = "reading")

(* When the broker stays away, the health ends up saying so: reports that workers
   and the keepalive make after the connection has ended are late, and do not last. *)
HealthSettles == <>[]~broker => <>[](health.state \notin {"idle", "live"})
==============================================================================
