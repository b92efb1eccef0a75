----------------------------- MODULE FsiddBoot -----------------------------
(***************************************************************************)
(* The start of knfsd-fsidd under systemd: main reads the configuration,   *)
(* run connects and checks that the table of FSIDs can be reached before   *)
(* the service tells systemd that it is ready.  The check has a budget,    *)
(* each attempt a timeout of its own, and systemd a timeout for the whole  *)
(* start.  A start that fails is repeated by systemd (Restart=on-failure,  *)
(* StartLimitBurst), and so is the start of a process that dies later.     *)
(* Serving is the subject of FsiddServer.                                  *)
(*                                                                         *)
(* Time passes in steps of a fixed length, in which all durations are      *)
(* given; work that does not wait takes no time.                           *)
(***************************************************************************)
EXTENDS Integers, FiniteSetsExt

CONSTANTS
  bootRetryDeadline,        \* budget of checkTable
  checkTableAttemptTimeout, \* timeout of one DescribeTable
  ConnectTime,              \* bound on connect: the region may come from IMDS
  MetricsShutdown,          \* timeout of the deferred m.Shutdown
  TimeoutStartSec,          \* of knfsd-fsidd.service
  StartLimitBurst,          \* of knfsd-fsidd.service; all starts are in one interval
  PauseScale,               \* the first pause is at most 1/PauseScale, 50ms in the code
  Settings                  \* flags and environment the unit may have

\* "This must stay comfortably below TimeoutStartSec in knfsd-fsidd.service (90s),
\* less the 10s metrics shutdown in run()" (dynamodb.go:48).
ASSUME BootAssumption ==
  /\ {bootRetryDeadline, ConnectTime, MetricsShutdown, TimeoutStartSec} \subseteq Nat
  /\ PauseScale \in Nat \ {0}
  /\ checkTableAttemptTimeout \in 1..bootRetryDeadline
  /\ ConnectTime + bootRetryDeadline + MetricsShutdown < TimeoutStartSec

VARIABLES
  fFile,     \* /etc/knfsd-fsidd.conf
  fSettings, \* flags and environment of the unit
  fPc,       \* where the process is; "off", "failed": there is none
  fConfig,   \* its configuration
  fClock,    \* time since its start
  fEnd,      \* when the budget of checkTable ends
  fUntil,    \* when the present attempt, pause or shutdown ends
  fCur,      \* bound on the next pause, in parts of 1/PauseScale
  fLastErr,  \* lastErr of checkTable
  fSeen,     \* the last error an attempt ended with inside the budget
  fSignal,   \* SIGTERM: "none", "stop" (told to), "timeout" (start timeout)
  fReport,   \* the cause that the last start gave for its failure
  fStarts    \* starts since systemctl start

checkVars == <<fEnd, fUntil, fCur, fLastErr, fSeen>>
bootVars == <<fFile, fSettings, fPc, fConfig, fClock, fSignal, fReport, fStarts, checkVars>>

\* A process that has not ended and does not serve yet: systemd's start job runs.
Running == {"connect", "attempt", "sleep", "socket", "shutdown"}

EmptyFile == [ok |-> TRUE, set |-> <<>>]

BootInit ==
  /\ fFile = EmptyFile /\ fSettings \in Settings
  /\ fPc = "off" /\ fConfig = <<>> /\ fClock = 0 /\ fSignal = "none"
  /\ fEnd = 0 /\ fUntil = 0 /\ fCur = 1 /\ fLastErr = "nil" /\ fSeen = "nil"
  /\ fReport = "nil" /\ fStarts = 0

-----------------------------------------------------------------------------
(* Configuration. *)

Defaults == [table |-> "", cache |-> "true"]

\* Only the keys that are in the file, or set and not empty in the environment, or
\* given as a flag, are assigned.
Assigned(cfg, new) ==
  [k \in DOMAIN new \cup DOMAIN cfg |-> IF k \in DOMAIN new THEN new[k] ELSE cfg[k]]
readDefaultConfig(cfg, file) == Assigned(cfg, file.set)
readEnv(cfg, env) == Assigned(cfg, [k \in {j \in DOMAIN env : env[j] # ""} |-> env[k]])
parseFlags(cfg, flags) == Assigned(cfg, flags)

loadConfig(file, s) ==
  parseFlags(readEnv(readDefaultConfig(Defaults, file), s.env), s.flags)

\* A file that does not parse, a Boolean that is none, and a missing table end the
\* process with status 2.
Valid(file, s) ==
  /\ file.ok
  /\ "cache" \in DOMAIN s.env => s.env.cache \in {"", "true", "false"}
  /\ loadConfig(file, s).table # ""

\* Nothing is known of the table, and the next wait lasts until then.  Time may be
\* counted from 0 again once the check is over: what is left of a start, the
\* shutdown of the metrics, then is within TimeoutStartSec by BootAssumption.
ResetCheck(until) ==
  /\ fClock' = 0 /\ fEnd' = 0 /\ fUntil' = until /\ fCur' = 1
  /\ fLastErr' = "nil" /\ fSeen' = "nil"

\* main, up to the call of run.
StartProcess(starts) ==
  /\ fStarts' = starts /\ fSignal' = "none"
  /\ fConfig' = loadConfig(fFile, fSettings)
  /\ IF Valid(fFile, fSettings)
     THEN fPc' = "connect" /\ fReport' = "nil"
     ELSE fPc' = "failed" /\ fReport' = "configuration"
  /\ ResetCheck(ConnectTime)
  /\ UNCHANGED <<fFile, fSettings>>

Restart == fPc = "failed" /\ fStarts \in 1..(StartLimitBurst - 1) /\ StartProcess(fStarts + 1)

-----------------------------------------------------------------------------
(* The check of the table. *)

\* What DescribeTable may answer.  An attempt whose context has ended returns
\* the error of the context.
Answers == {"AccessDenied", "Throttling", "ResourceNotFound", "RequestSend", "Validation"}

ShouldRetryBoot(e) == e \in {"AccessDenied", "Throttling", "RequestSend", "AttemptTimeout"}

checkTableHint(e) ==
  CASE e = "ResourceNotFound" -> "table"
    [] e = "AccessDenied" -> "role"
    [] e = "Throttling" -> "DynamoDB"
    [] e \in {"AttemptTimeout", "RequestSend", "ContextEnded"} -> "network"
    [] OTHER -> "unexpected"

\* bootCtx.Err() # nil
BootEnded == fSignal # "none" \/ fClock >= fEnd

StartAttempt(end) ==
  /\ fPc' = "attempt" /\ fEnd' = end
  /\ fUntil' = Min({fClock + checkTableAttemptTimeout, end})
  /\ UNCHANGED fCur

\* run returns; the metrics are shut down before the process ends.
RunEnds(report) ==
  /\ fPc' = "shutdown" /\ fReport' = report /\ fUntil' = fClock + MetricsShutdown
  /\ UNCHANGED <<fEnd, fCur>>

\* The end of checkTable with err, after the last attempt left last.
CheckFails(e, last) ==
  RunEnds(IF fSignal # "none" THEN e ELSE checkTableHint(IF last = "nil" THEN e ELSE last))

Connect(ok) ==
  /\ fPc = "connect"
  /\ IF ok THEN StartAttempt(fClock + bootRetryDeadline) /\ UNCHANGED fReport
     ELSE RunEnds("aws configuration")
  /\ UNCHANGED <<fFile, fSettings, fConfig, fClock, fLastErr, fSeen, fSignal, fStarts>>

\* Mutant: the error of the attempt that the end of the budget cuts short counts.
lastErrAlways(e) == e

\* lastErr after an attempt that failed with e.
lastErr(e) == IF BootEnded /\ fLastErr # "nil" THEN fLastErr ELSE e

AttemptSucceeds ==
  /\ fPc = "attempt"
  /\ fPc' = "socket"
  /\ ResetCheck(0)
  /\ UNCHANGED <<fFile, fSettings, fConfig, fSignal, fReport, fStarts>>

\* The pauses withRetryDeadline may take: they are random, and their bound doubles,
\* up to 60 seconds, the bootRetryDeadline.
Pauses == 0..(fCur \div PauseScale)
nextCur == Min({2 * fCur, bootRetryDeadline * PauseScale})

\* An attempt fails with answer a, and withRetryDeadline returns or pauses.
AttemptFails(a) ==
  /\ fPc = "attempt"
  /\ a = "ContextEnded" => BootEnded \/ fClock >= fUntil
  /\ LET e == IF ~BootEnded /\ fClock >= fUntil THEN "AttemptTimeout" ELSE a IN
     /\ fLastErr' = lastErr(e)
     /\ fSeen' = IF BootEnded THEN fSeen ELSE e
     /\ \E pause \in Pauses :
          IF ShouldRetryBoot(e) /\ fClock + pause < fEnd
          THEN /\ fPc' = "sleep" /\ fUntil' = fClock + pause /\ fCur' = nextCur
               /\ UNCHANGED <<fEnd, fReport>>
          ELSE CheckFails(e, lastErr(e))
  /\ UNCHANGED <<fFile, fSettings, fConfig, fClock, fSignal, fStarts>>

\* The pause ends, or a signal ends it.
Sleep ==
  /\ fPc = "sleep"
  /\ \/ fClock >= fUntil /\ StartAttempt(fEnd) /\ UNCHANGED fReport
     \/ fSignal # "none" /\ CheckFails("ContextEnded", fLastErr)
  /\ UNCHANGED <<fFile, fSettings, fConfig, fClock, fLastErr, fSeen, fSignal, fStarts>>

-----------------------------------------------------------------------------
\* resolveSocket, with the socket of systemd or a new one, and the message to systemd
\* that the service is ready.  A service that was told to stop meanwhile stops at once.
ServeSocket(ok) ==
  /\ fPc = "socket"
  /\ IF ok /\ fSignal = "none"
     THEN fPc' = "serving" /\ UNCHANGED <<fReport, fEnd, fCur, fUntil>>
     ELSE RunEnds(IF ok THEN "nil" ELSE "socket")
  /\ UNCHANGED <<fFile, fSettings, fConfig, fClock, fLastErr, fSeen, fSignal, fStarts>>

\* No process, and none that systemd would restart.
NoProcess ==
  /\ fPc' = "off" /\ fConfig' = <<>> /\ fSignal' = "none" /\ fReport' = "nil" /\ fStarts' = 0
  /\ ResetCheck(0)

\* The process ends; systemd does not restart a service it has stopped.
EndProcess ==
  /\ fPc = "shutdown"
  /\ IF fSignal = "stop" THEN NoProcess
     ELSE /\ fPc' = "failed" /\ fClock' = 0 /\ fEnd' = 0 /\ fUntil' = 0 /\ fCur' = 1
          /\ fLastErr' = "nil"
          /\ UNCHANGED <<fConfig, fSignal, fSeen, fReport, fStarts>>
  /\ UNCHANGED <<fFile, fSettings>>

\* A process that serves dies, or Accept fails and it exits with status 1.
Crash ==
  /\ fPc = "serving" /\ fPc' = "failed"
  /\ UNCHANGED <<fFile, fSettings, fConfig, fClock, fSignal, fReport, fStarts, checkVars>>

PassTime ==
  /\ \/ fPc = "attempt" /\ ~BootEnded /\ fClock < fUntil
     \/ fPc = "sleep" /\ fSignal = "none" /\ fClock < fUntil
     \/ fPc \in {"connect", "shutdown"} /\ fClock < fUntil
  /\ fClock' = fClock + 1
  /\ fSignal' = IF fSignal = "none" /\ fClock' >= TimeoutStartSec THEN "timeout" ELSE fSignal
  /\ UNCHANGED <<fFile, fSettings, fPc, fConfig, fReport, fStarts, checkVars>>

\* systemctl stop; it returns when the process has ended.
StopService ==
  /\ IF fPc \in {"off", "failed", "serving"} THEN NoProcess
     ELSE fSignal' = "stop" /\ UNCHANGED <<fPc, fConfig, fClock, fReport, fStarts, checkVars>>
  /\ UNCHANGED <<fFile, fSettings>>

\* The steps of a start.
BootNext ==
  \/ AttemptSucceeds \/ Sleep \/ EndProcess \/ PassTime
  \/ \E a \in Answers \cup {"ContextEnded"} : AttemptFails(a)
  \/ \E ok \in BOOLEAN : Connect(ok) \/ ServeSocket(ok)

-----------------------------------------------------------------------------
(* Properties. *)

\* A start that fails says why: systemd does not cut it short, and the hint in the
\* journal is about the last error seen while the budget of checkTable was running,
\* not about the attempt that the end of the budget interrupts ("keep the previous
\* (more informative) error", dynamodb.go:175).
CauseReported ==
  /\ fSignal # "timeout"
  /\ fPc = "failed" /\ fSeen # "nil" => fReport = checkTableHint(fSeen)
=============================================================================
