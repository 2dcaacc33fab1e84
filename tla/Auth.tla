-------------------------------- MODULE Auth --------------------------------
(***************************************************************************)
(* sources/solaris-auth/src/lib.rs: offline-mode sessions start locked and *)
(* are unlocked by /login or /register, or disconnected: after a number of *)
(* wrong passwords, when storage fails, and by a timer.                    *)
(*                                                                         *)
(* A password stands for itself and for its hash (external):               *)
(* password_verify is equality.  The account of a session is the key of    *)
(* its player's name in lower case, so several sessions may share one.     *)
(* Requests are named by their session: it never has two reads or two      *)
(* saves under way.  The plugin does not handle CommandBatchRejected.      *)
(***************************************************************************)
EXTENDS HostCalls, Sequences, SequencesExt, FiniteSets

CONSTANTS
  Sessions, Accounts, Passwords,
  AccountOf,       \* session -> its account
  Unreadable,      \* a stored value that is no hash
  FailureLimit,    \* wrong passwords until the session is disconnected (5)
  InitialValues,   \* what an account may hold at first start; {} is nothing
  MaxVersion       \* bound: no save is started at this version of an account

ASSUME SessionsAssumption ==
  AccountOf \in [Sessions -> Accounts] /\ FailureLimit \in Nat \ {0}

ASSUME StoresAssumption ==
  /\ Unreadable \notin Passwords /\ MaxVersion \in Nat
  /\ InitialValues \subseteq {{}} \cup {{v} : v \in Passwords \cup {Unreadable}}

VARIABLES
  sessions, reads, saves,   \* struct Auth; saves: session -> Save
  link,        \* session -> "new", "locked", "open", "closed" or "gone"
  timers,      \* the sessions whose timer is set
  stored,      \* account -> its values by version
  proof,       \* history: session -> the password it last registered or
               \* logged in with
  since,       \* history: session -> the account's version when it joined
  dismissed,   \* history: sessions the plugin gave up on
  outbox, calls, answers

plugin == <<sessions, reads, saves>>
history == <<proof, since, dismissed>>
vars == <<plugin, link, timers, stored, history, outbox, calls, answers>>

-----------------------------------------------------------------------------
(* Data *)

NewSession == [loaded |-> FALSE, account |-> {}, authenticated |-> FALSE,
               failures |-> 0, busy |-> FALSE]

Version(a) == Len(stored[a])

(* The account a read at this version finds, and the one of a session. *)
Found(a, version) ==
  IF version = 0 THEN {} ELSE {[hash |-> stored[a][version], version |-> version]}

KnownVersion(s) ==
  IF sessions[s].account = {} THEN 0 ELSE (CHOOSE x \in sessions[s].account : TRUE).version

Unlock(s) == [type |-> "unlock", session |-> s]
Disconnect(s) == [type |-> "disconnect", session |-> s]
ScheduleTimer(s) == [type |-> "schedule", session |-> s]
CancelTimer(s) == [type |-> "cancel", session |-> s]
Get(s) == [type |-> "get", session |-> s]

(* old, a history, is what the player typed as the password to replace. *)
Cas(s, password, old) ==
  [type |-> "cas", session |-> s, expected |-> KnownVersion(s), value |-> password,
   old |-> old]

Send(commands) == outbox' = outbox \cup commands

-----------------------------------------------------------------------------
(* Sessions *)

(* Mutant: a join without its timeout. *)
Joined_NoTimer(s) ==
  /\ link[s] = "new"
  /\ link' = [link EXCEPT ![s] = "locked"]
  /\ since' = [since EXCEPT ![s] = Version(AccountOf[s])]
  /\ sessions' = [t \in DOMAIN sessions \cup {s} |->
                    IF t = s THEN NewSession ELSE sessions[t]]
  /\ reads' = reads \cup {s}
  /\ Send({Get(s)})
  /\ UNCHANGED <<saves, timers, stored, proof, dismissed, calls, answers>>

Joined(s) ==
  /\ link[s] = "new"
  /\ link' = [link EXCEPT ![s] = "locked"]
  /\ since' = [since EXCEPT ![s] = Version(AccountOf[s])]
  /\ sessions' = [t \in DOMAIN sessions \cup {s} |->
                    IF t = s THEN NewSession ELSE sessions[t]]
  /\ reads' = reads \cup {s}
  /\ Send({ScheduleTimer(s), Get(s)})
  /\ UNCHANGED <<saves, timers, stored, proof, dismissed, calls, answers>>

(* Mutant: what the session had under way stays. *)
Left_KeepsRequests(s) ==
  /\ link[s] = "closed"
  /\ link' = [link EXCEPT ![s] = "gone"]
  /\ sessions' = [t \in DOMAIN sessions \ {s} |-> sessions[t]]
  /\ Send({CancelTimer(s)})
  /\ UNCHANGED <<reads, saves, timers, stored, history, calls, answers>>

Left(s) ==
  /\ link[s] = "closed"
  /\ link' = [link EXCEPT ![s] = "gone"]
  /\ sessions' = [t \in DOMAIN sessions \ {s} |-> sessions[t]]
  /\ reads' = reads \ {s}
  /\ saves' = [t \in DOMAIN saves \ {s} |-> saves[t]]
  /\ Send({CancelTimer(s)})
  /\ UNCHANGED <<timers, stored, history, calls, answers>>

(* authenticate *)
Authenticate(s, account) ==
  /\ sessions' = [sessions EXCEPT ![s] =
                    [@ EXCEPT !.account = account, !.authenticated = TRUE,
                              !.busy = FALSE, !.failures = 0]]
  /\ Send({Unlock(s), CancelTimer(s)})
  /\ UNCHANGED dismissed

(* wrong *)
Wrong(s) ==
  IF sessions[s].failures + 1 >= FailureLimit
  THEN /\ sessions' = [sessions EXCEPT ![s] =
                         [sessions[s] EXCEPT !.failures = @ + 1,
                                             !.authenticated = FALSE, !.busy = TRUE]]
       /\ Send({Disconnect(s)})
       /\ dismissed' = dismissed \cup {s}
  ELSE /\ sessions' = [sessions EXCEPT ![s].failures = @ + 1]
       /\ UNCHANGED <<outbox, dismissed>>

(* save, or a hash that could not be made. *)
Save(s, password, change, old) ==
  \/ /\ Version(AccountOf[s]) < MaxVersion
     /\ sessions' = [sessions EXCEPT ![s].busy = TRUE]
     /\ saves' = [t \in DOMAIN saves \cup {s} |->
                    IF t = s THEN [hash |-> password, change |-> change] ELSE saves[t]]
     /\ Send({Cas(s, password, old)})
  \/ /\ "hash_failure" \in Faults
     /\ Send({Disconnect(s)})
     /\ UNCHANGED <<sessions, saves>>

-----------------------------------------------------------------------------
(* Commands.  Those that only lead to a message are left out. *)

(* Whose commands may still be handled. *)
Connected(s) == link[s] \in {"locked", "open", "closed"}

Ready(s) == /\ Connected(s)
            /\ s \in DOMAIN sessions
            /\ sessions[s].loaded /\ ~sessions[s].busy

Prove(s, p) == proof' = [proof EXCEPT ![s] = {p}]

(* Mutant: an account that exists is registered again. *)
Register_Again(s, p) ==
  /\ Ready(s) /\ ~sessions[s].authenticated
  /\ Prove(s, p)
  /\ Save(s, p, FALSE, {})
  /\ UNCHANGED <<reads, link, timers, stored, since, dismissed, calls, answers>>

Register(s, p) ==
  /\ Ready(s) /\ sessions[s].account = {}
  /\ Prove(s, p)
  /\ Save(s, p, FALSE, {})
  /\ UNCHANGED <<reads, link, timers, stored, since, dismissed, calls, answers>>

Login(s, p) ==
  /\ Ready(s) /\ ~sessions[s].authenticated
  /\ \E account \in sessions[s].account :
        IF p = account.hash THEN Authenticate(s, {account}) /\ Prove(s, p)
                            ELSE Wrong(s) /\ UNCHANGED proof
  /\ UNCHANGED <<reads, saves, link, timers, stored, since, calls, answers>>

ChangePassword(s, old, p) ==
  /\ Ready(s) /\ sessions[s].authenticated
  /\ \E account \in sessions[s].account :
        IF old = account.hash THEN Save(s, p, TRUE, {old}) /\ UNCHANGED dismissed
                              ELSE Wrong(s) /\ UNCHANGED saves
  /\ UNCHANGED <<reads, link, timers, stored, proof, since, calls, answers>>

(* A session this instance has not seen join. *)
Unknown(s) ==
  /\ Connected(s) /\ s \notin DOMAIN sessions
  /\ Send({Disconnect(s)})
  /\ UNCHANGED <<plugin, link, timers, stored, history, calls, answers>>

Command ==
  \E s \in Sessions :
     \/ \E p \in Passwords : Register(s, p) \/ Login(s, p)
     \/ \E old, p \in Passwords : ChangePassword(s, old, p)
     \/ Unknown(s)

-----------------------------------------------------------------------------
(* Answers *)

(* StorageGetAnswered for a read that is awaited. *)
AccountRead(s, answer) ==
  /\ answer.type = "get" /\ s \in reads
  /\ reads' = reads \ {s}
  /\ IF answer.outcome = "read" /\ \A x \in answer.account : x.hash # Unreadable
     THEN /\ sessions' = [sessions EXCEPT ![s] =
                            [@ EXCEPT !.account = answer.account,
                                      !.loaded = TRUE, !.busy = FALSE]]
          /\ UNCHANGED outbox
     ELSE Send({Disconnect(s)}) /\ UNCHANGED sessions
  /\ UNCHANGED <<saves, dismissed>>

SaveCommitted(s, save, version) ==
  LET account == {[hash |-> save.hash, version |-> version]}
  IN  /\ IF save.change
         THEN /\ sessions' = [sessions EXCEPT ![s] =
                                [@ EXCEPT !.account = account, !.busy = FALSE, !.failures = 0]]
              /\ UNCHANGED <<outbox, dismissed>>
         ELSE Authenticate(s, account)
      /\ UNCHANGED reads

(* Mutant: a refused registration logs in. *)
SaveRefused_Unlocks(s) ==
  Authenticate(s, sessions[s].account) /\ UNCHANGED reads

SaveRefused(s) ==
  /\ sessions' = [sessions EXCEPT ![s] = [@ EXCEPT !.busy = TRUE, !.loaded = FALSE]]
  /\ reads' = reads \cup {s}
  /\ Send({Get(s)})
  /\ UNCHANGED dismissed

SaveFailed(s) == Send({Disconnect(s)}) /\ UNCHANGED <<sessions, reads, dismissed>>

(* StorageCasAnswered for a save that is awaited. *)
AccountSaved(s, answer) ==
  /\ answer.type = "cas" /\ s \in DOMAIN saves
  /\ saves' = [t \in DOMAIN saves \ {s} |-> saves[t]]
  /\ CASE answer.outcome = "committed" -> SaveCommitted(s, saves[s], answer.version)
       [] answer.outcome = "refused" -> SaveRefused(s)
       [] answer.outcome = "failed" -> SaveFailed(s)

(* An answer that was dropped with its session or its timeout. *)
Ignored(s, answer) ==
  /\ IF answer.type = "get" THEN s \notin reads ELSE s \notin DOMAIN saves
  /\ UNCHANGED <<plugin, dismissed, outbox>>

Deliver ==
  \E answer \in answers :
     /\ answers' = answers \ {answer}
     /\ \/ AccountRead(answer.session, answer)
        \/ AccountSaved(answer.session, answer)
        \/ Ignored(answer.session, answer)
     /\ UNCHANGED <<link, timers, stored, proof, since, calls>>

(* Mutant: answers under way still count after the timeout. *)
TimerFired_StillListens(s) ==
  /\ s \in timers
  /\ timers' = timers \ {s}
  /\ IF s \in DOMAIN sessions /\ ~sessions[s].authenticated
     THEN /\ sessions' = [sessions EXCEPT ![s].busy = TRUE]
          /\ Send({Disconnect(s)})
          /\ dismissed' = dismissed \cup {s}
          /\ UNCHANGED <<reads, saves>>
     ELSE UNCHANGED <<plugin, dismissed, outbox>>
  /\ UNCHANGED <<link, stored, proof, since, calls, answers>>

TimerFired(s) ==
  /\ s \in timers
  /\ timers' = timers \ {s}
  /\ IF s \in DOMAIN sessions /\ ~sessions[s].authenticated
     THEN /\ reads' = reads \ {s}
          /\ saves' = [t \in DOMAIN saves \ {s} |-> saves[t]]
          /\ sessions' = [sessions EXCEPT ![s].busy = TRUE]
          /\ Send({Disconnect(s)})
          /\ dismissed' = dismissed \cup {s}
     ELSE UNCHANGED <<plugin, dismissed, outbox>>
  /\ UNCHANGED <<link, stored, proof, since, calls, answers>>

-----------------------------------------------------------------------------
(* The host (external) *)

(* A session that is unlocked and disconnected by one batch is closed: no  *)
(* handler unlocks a session it disconnected before.                       *)
AcceptBatch ==
  LET of(type) == {c.session : c \in {d \in outbox : d.type = type}}
  IN  /\ outbox # {}
      /\ link' = [s \in Sessions |->
                    CASE link[s] \in {"locked", "open"} /\ s \in of("disconnect") -> "closed"
                      [] link[s] = "locked" /\ s \in of("unlock") -> "open"
                      [] OTHER -> link[s]]
      /\ timers' = (timers \cup of("schedule")) \ of("cancel")
      /\ calls' = calls \cup {c \in outbox : c.type \in {"get", "cas"}}
      /\ outbox' = {}
      /\ UNCHANGED <<plugin, stored, history, answers>>

ExecuteGet(call) ==
  LET a == AccountOf[call.session]
  IN  /\ call.type = "get"
      /\ \E outcome \in ReadOutcomes :
            answers' = answers \cup {[type |-> "get", session |-> call.session,
                                      outcome |-> outcome, account |-> Found(a, Version(a))]}
      /\ UNCHANGED stored

ExecuteCas(call) ==
  LET a == AccountOf[call.session]
      record == [version |-> Version(a), value |-> stored[a]]
  IN  /\ call.type = "cas"
      /\ \E x \in CasExecutions(record, call.expected, Append(stored[a], call.value)) :
            /\ stored' = [stored EXCEPT ![a] = x.record.value]
            /\ answers' = answers \cup {[type |-> "cas", session |-> call.session,
                                         outcome |-> x.outcome, version |-> x.record.version]}

Execute ==
  \E call \in calls :
     /\ calls' = calls \ {call}
     /\ ExecuteGet(call) \/ ExecuteCas(call)
     /\ UNCHANGED <<plugin, link, timers, history, outbox>>

(* The player closes the connection. *)
Quit(s) ==
  /\ link[s] \in {"locked", "open"}
  /\ link' = [link EXCEPT ![s] = "closed"]
  /\ UNCHANGED <<plugin, timers, stored, history, outbox, calls, answers>>

(* Another instance knows none of the sessions, and its timers are gone. *)
Restart ==
  /\ "restart" \in Faults
  /\ sessions' = <<>> /\ reads' = {} /\ saves' = <<>>
  /\ timers' = {} /\ outbox' = {} /\ calls' = {} /\ answers' = {}
  /\ UNCHANGED <<link, stored, history>>

-----------------------------------------------------------------------------
Init ==
  /\ sessions = <<>> /\ reads = {} /\ saves = <<>>
  /\ link = [s \in Sessions |-> "new"] /\ timers = {}
  /\ \E value \in [Accounts -> InitialValues] :
        stored = [a \in Accounts |-> SetToSeq(value[a])]
  /\ proof = [s \in Sessions |-> {}] /\ since = [s \in Sessions |-> 0] /\ dismissed = {}
  /\ outbox = {} /\ calls = {} /\ answers = {}

Next ==
  \/ Command \/ Deliver \/ AcceptBatch \/ Execute \/ Restart
  \/ \E s \in Sessions : Joined(s) \/ Left(s) \/ TimerFired(s) \/ Quit(s)

Spec == Init /\ [][Next]_vars

(* The host decides on every batch and fires every timer.  No answer is    *)
(* needed for a session to end.                                            *)
FairSpec == /\ Spec
            /\ WF_vars(AcceptBatch)
            /\ \A s \in Sessions : WF_vars(TimerFired(s))

-----------------------------------------------------------------------------
(* Properties *)

AccountsOf(a) == UNION {Found(a, v) : v \in 0 .. Version(a)}

(* The account a session holds was stored under the version it holds it    *)
(* at, an unlocked session has one (expect("authenticated account"),       *)
(* lib.rs:173), and only a session that is known has a request under way:  *)
(* no answer finds its session gone, whatever ends the session first.      *)
AccountIsStored ==
  /\ \A s \in DOMAIN sessions :
        /\ sessions[s].account \subseteq AccountsOf(AccountOf[s])
        /\ sessions[s].authenticated => sessions[s].account # {}
  /\ reads \cup DOMAIN saves \subseteq DOMAIN sessions

(* The password that unlocked a session was the account's at some time     *)
(* since the session joined: never one that was only proposed, or was      *)
(* replaced before.                                                        *)
UnlockIsEarned ==
  \A s \in Sessions :
     link[s] = "open" \/ (s \in DOMAIN sessions /\ sessions[s].authenticated)
        => \E v \in 1 .. Version(AccountOf[s]) :
              v >= since[s] /\ stored[AccountOf[s]][v] \in proof[s]

(* A password is replaced only by who typed it: a registration never       *)
(* overwrites an account, whichever sessions race for it, and a change     *)
(* replaces the password it was checked against.                           *)
OverwriteKnowsOld ==
  [][\A a \in Accounts :
        stored'[a] # stored[a] /\ stored[a] # <<>> =>
           \E call \in calls \ calls' : call.type = "cas" /\ Last(stored[a]) \in call.old]_vars

(* "Ignore any storage callback arriving after the disconnect decision"    *)
(* (lib.rs:314): a session that timed out or failed too often is never     *)
(* unlocked afterwards, by a late answer or by another command.            *)
DismissedStaysOut ==
  [][\A s \in dismissed : Unlock(s) \in outbox' => Unlock(s) \in outbox]_vars

(* A locked session is unlocked or disconnected in time, whatever storage  *)
(* does; only a restart forgets it.                                        *)
LockedEnds ==
  \A s \in Sessions : link[s] = "locked" ~> link[s] # "locked" \/ s \notin DOMAIN sessions
=============================================================================
