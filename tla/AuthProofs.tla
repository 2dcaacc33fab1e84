----------------------------- MODULE AuthProofs -----------------------------
(***************************************************************************)
(* Theorems about Auth for any sessions, accounts, passwords, limits,      *)
(* initial accounts and faults.                                            *)
(*                                                                         *)
(* The invariant is stated session by session (Sound), so that a handler   *)
(* of one session leaves every other one to a single lemma (Elsewhere).    *)
(***************************************************************************)
EXTENDS Auth, TLAPS, FiniteSetTheorems, SequenceTheorems

Values == Passwords \cup {Unreadable}
AccountRecords == [hash : Values, version : Nat \ {0}]

(* An Option<Account>. *)
KnownAccounts == {{}} \cup {{x} : x \in AccountRecords}

SessionRecords == [loaded : BOOLEAN, account : KnownAccounts, authenticated : BOOLEAN,
                   failures : Nat, busy : BOOLEAN]
SaveRecords == [hash : Passwords, change : BOOLEAN]

Signals == [type : {"unlock", "disconnect", "schedule", "cancel"}, session : Sessions]
Gets == [type : {"get"}, session : Sessions]
Writes == [type : {"cas"}, session : Sessions, expected : Nat, value : Passwords,
           old : SUBSET Passwords]
Answers ==
  [type : {"get"}, session : Sessions, outcome : {"read", "failed"},
   account : KnownAccounts]
    \cup [type : {"cas"}, session : Sessions, outcome : {"committed", "refused", "failed"},
          version : Nat]

TypeOK ==
  /\ DOMAIN sessions \subseteq Sessions
  /\ sessions \in [DOMAIN sessions -> SessionRecords]
  /\ reads \subseteq Sessions
  /\ DOMAIN saves \subseteq Sessions
  /\ saves \in [DOMAIN saves -> SaveRecords]
  /\ link \in [Sessions -> {"new", "locked", "open", "closed", "gone"}]
  /\ timers \subseteq Sessions
  /\ stored \in [Accounts -> Seq(Values)]
  /\ proof \in [Sessions -> SUBSET Passwords]
  /\ since \in [Sessions -> Nat]
  /\ dismissed \subseteq Sessions
  /\ outbox \subseteq Signals \cup Gets \cup Writes
  /\ calls \subseteq Gets \cup Writes
  /\ answers \subseteq Answers

-----------------------------------------------------------------------------
(* The invariant of one session *)

(* The account s knows was stored at that version, while s was connected   *)
(* or as the newest when it joined.                                        *)
Known(s, x) ==
  /\ x.version \in 1 .. Version(AccountOf[s])
  /\ x.version >= since[s]
  /\ stored[AccountOf[s]][x.version] = x.hash

Earned(s) ==
  \E v \in 1 .. Version(AccountOf[s]) :
     v >= since[s] /\ stored[AccountOf[s]][v] \in proof[s]

(* No request of s is awaited, and no command of s can start one. *)
Silenced(s) == sessions[s].busy /\ s \notin reads /\ s \notin DOMAIN saves

(* m is a storage request of s, or its answer. *)
Concerns(m, s) == m.session = s /\ m.type \in {"get", "cas"}

(* What is under way for s is awaited, unless s waits for nothing more. *)
Awaited(m, s) ==
  \/ m.type = "get" /\ s \in reads
  \/ m.type = "cas" /\ s \in DOMAIN saves
  \/ Silenced(s)

(* A session that has not joined has left no trace. *)
Untouched(s) ==
  link[s] = "new" =>
     /\ s \notin DOMAIN sessions /\ s \notin dismissed
     /\ \A m \in outbox \cup calls \cup answers : m.session # s

(* At most one request of s is under way. *)
OneRequest(s) ==
  /\ \A m \in outbox, n \in calls \cup answers : ~ (Concerns(m, s) /\ Concerns(n, s))
  /\ \A m \in calls, n \in answers : ~ (Concerns(m, s) /\ Concerns(n, s))
  /\ \A m, n \in outbox : Concerns(m, s) /\ Concerns(n, s) => m = n
  /\ \A m, n \in calls : Concerns(m, s) /\ Concerns(n, s) => m = n
  /\ \A m, n \in answers : Concerns(m, s) /\ Concerns(n, s) => m = n

Waiting(s) ==
  /\ s \in reads => s \in DOMAIN sessions /\ ~ sessions[s].loaded
  /\ s \in DOMAIN saves => /\ s \in DOMAIN sessions
                           /\ sessions[s].loaded /\ sessions[s].busy
                           /\ saves[s].change \/ saves[s].hash \in proof[s]
  /\ s \in DOMAIN sessions =>
        \A m \in outbox \cup calls \cup answers : Concerns(m, s) => Awaited(m, s)

(* What s knows, and what it is about to learn, was stored. *)
Informed(s) ==
  /\ since[s] <= Version(AccountOf[s])
  /\ s \in DOMAIN sessions => \A x \in sessions[s].account : Known(s, x)
  /\ \A m \in answers : m.session = s /\ m.type = "get" =>
        /\ \A x \in m.account : Known(s, x)
        /\ s \in reads /\ sessions[s].account # {} => m.account # {}
  /\ \A m \in answers :
        m.session = s /\ m.type = "cas" /\ m.outcome = "committed" /\ s \in DOMAIN saves
           => m.version > 0 /\ Known(s, [hash |-> saves[s].hash, version |-> m.version])

(* A write of s replaces nothing, or a password s knew. *)
Checked(s) ==
  \A m \in outbox \cup calls : m.session = s /\ m.type = "cas" =>
     /\ s \in DOMAIN saves => m.value = saves[s].hash
     /\ \/ m.expected = 0
        \/ /\ m.expected \in 1 .. Version(AccountOf[s])
           /\ stored[AccountOf[s]][m.expected] \in m.old

Unlocked(s) ==
  /\ link[s] = "open" \/ Unlock(s) \in outbox
        => Earned(s) /\ (s \in DOMAIN sessions => sessions[s].account # {})
  /\ s \in DOMAIN sessions /\ sessions[s].authenticated
        => Earned(s) /\ sessions[s].account # {}

Dismissed(s) == s \in dismissed /\ s \in DOMAIN sessions => Silenced(s)

Sound(s) ==
  /\ Untouched(s) /\ OneRequest(s) /\ Waiting(s) /\ Informed(s)
  /\ Checked(s) /\ Unlocked(s) /\ Dismissed(s)

AllSound == \A s \in Sessions : Sound(s)

-----------------------------------------------------------------------------
(* Types *)

(* An account starts with the value it is given, or with none. *)
LEMMA InitialSequence ==
  ASSUME NEW S \in InitialValues
  PROVE  SetToSeq(S) \in Seq(Values)
<1>1. CASE S = {}
  <2>1. Cardinality(S) = 0
    BY <1>1, FS_EmptySet
  <2>2. <<>> \in [1 .. Cardinality(S) -> S] /\ IsInjective(<<>>)
    BY <1>1, <2>1 DEF IsInjective
  <2>3. SetToSeq(S) \in [1 .. 0 -> S]
    BY <2>1, <2>2 DEF SetToSeq
  <2> QED
    BY <1>1, <2>3
<1>2. ASSUME NEW v \in Values, S = {v} PROVE SetToSeq(S) \in Seq(Values)
  <2>1. Cardinality(S) = 1
    BY <1>2, FS_Singleton
  <2> DEFINE one == [i \in 1 .. 1 |-> v]
  <2>2. one \in [1 .. Cardinality(S) -> S] /\ IsInjective(one)
    BY <1>2, <2>1 DEF IsInjective
  <2>3. SetToSeq(S) \in [1 .. 1 -> S]
    BY <2>1, <2>2 DEF SetToSeq
  <2>4. SetToSeq(S) \in [1 .. 1 -> Values]
    BY <1>2, <2>3
  <2> QED
    BY <2>4, SeqDef
<1> QED
  BY <1>1, <1>2, StoresAssumption DEF Values

(* What executing a write may leave in an account. *)
LEMMA WriteOutcomes ==
  ASSUME NEW record, NEW expected, NEW value,
         NEW x \in CasExecutions(record, expected, value)
  PROVE  /\ x.outcome \in {"committed", "refused", "failed"}
         /\ \/ x.record = record /\ x.outcome # "committed"
            \/ /\ record.version = expected
               /\ x.record.version = record.version + 1 /\ x.record.value = value
BY DEF CasExecutions, CasOutcomes, Written

LEMMA VersionType ==
  ASSUME TypeOK, NEW a \in Accounts
  PROVE  Version(a) \in Nat
BY DEF TypeOK, Version

(* The version a write of s names. *)
LEMMA KnownVersionType ==
  ASSUME TypeOK, NEW s \in DOMAIN sessions
  PROVE  /\ sessions[s] \in SessionRecords
         /\ sessions[s].account = {} => KnownVersion(s) = 0
         /\ \A x \in sessions[s].account :
               x \in AccountRecords /\ sessions[s].account = {x} /\ KnownVersion(s) = x.version
<1>1. sessions[s] \in SessionRecords
  BY DEF TypeOK
<1>2. ASSUME NEW x \in sessions[s].account
      PROVE  x \in AccountRecords /\ sessions[s].account = {x} /\ KnownVersion(s) = x.version
  <2>1. x \in AccountRecords /\ sessions[s].account = {x}
    BY <1>1, <1>2 DEF SessionRecords, KnownAccounts
  <2> QED
    BY <2>1 DEF KnownVersion
<1> QED
  BY <1>1, <1>2 DEF KnownVersion

SessionsTyped ==
  /\ DOMAIN sessions \subseteq Sessions
  /\ sessions \in [DOMAIN sessions -> SessionRecords]

SavesTyped ==
  /\ DOMAIN saves \subseteq Sessions
  /\ saves \in [DOMAIN saves -> SaveRecords]

OutboxTyped == outbox \subseteq Signals \cup Gets \cup Writes

LEMMA ReplaceSession ==
  ASSUME TypeOK, NEW s \in DOMAIN sessions, NEW r \in SessionRecords,
         sessions' = [sessions EXCEPT ![s] = r]
  PROVE  SessionsTyped'
BY DEF TypeOK, SessionsTyped

LEMMA SignalTypes ==
  ASSUME NEW s \in Sessions
  PROVE  /\ Unlock(s) \in Signals /\ Disconnect(s) \in Signals
         /\ ScheduleTimer(s) \in Signals /\ CancelTimer(s) \in Signals
         /\ Get(s) \in Gets
BY DEF Unlock, Disconnect, ScheduleTimer, CancelTimer, Get, Signals, Gets

LEMMA AuthenticateType ==
  ASSUME TypeOK, NEW s \in DOMAIN sessions, NEW account \in KnownAccounts,
         Authenticate(s, account)
  PROVE  SessionsTyped' /\ OutboxTyped' /\ dismissed' = dismissed
<1>1. sessions[s] \in SessionRecords /\ s \in Sessions
  BY DEF TypeOK
<1> DEFINE r == [sessions[s] EXCEPT !.account = account, !.authenticated = TRUE,
                                    !.busy = FALSE, !.failures = 0]
<1>2. r \in SessionRecords
  BY <1>1 DEF SessionRecords
<1>3. sessions' = [sessions EXCEPT ![s] = r]
  BY DEF Authenticate
<1>4. OutboxTyped'
  BY <1>1, SignalTypes DEF Authenticate, Send, OutboxTyped, TypeOK
<1> HIDE DEF r
<1> QED
  BY <1>2, <1>3, <1>4, ReplaceSession DEF Authenticate

LEMMA WrongType ==
  ASSUME TypeOK, NEW s \in DOMAIN sessions, Wrong(s)
  PROVE  SessionsTyped' /\ OutboxTyped' /\ dismissed' \subseteq Sessions
<1>1. sessions[s] \in SessionRecords /\ s \in Sessions
  BY DEF TypeOK
<1>2. CASE sessions[s].failures + 1 >= FailureLimit
  <2> DEFINE n == sessions[s].failures + 1
             r == [sessions[s] EXCEPT !.failures = n, !.authenticated = FALSE,
                                      !.busy = TRUE]
  <2>1. n \in Nat
    BY <1>1 DEF SessionRecords
  <2>2. sessions' = [sessions EXCEPT ![s] = r]
    BY <1>2 DEF Wrong
  <2> HIDE DEF n
  <2>4. r \in SessionRecords
    BY <1>1, <2>1 DEF SessionRecords
  <2>3. OutboxTyped' /\ dismissed' \subseteq Sessions
    BY <1>1, <1>2, SignalTypes DEF Wrong, Send, OutboxTyped, TypeOK
  <2> HIDE DEF r
  <2> QED
    BY <2>2, <2>3, <2>4, ReplaceSession
<1>3. CASE ~ (sessions[s].failures + 1 >= FailureLimit)
  <2> DEFINE r == [sessions[s] EXCEPT !.failures = @ + 1]
  <2>1. r \in SessionRecords
    BY <1>1 DEF SessionRecords
  <2>2. sessions' = [sessions EXCEPT ![s] = r]
    BY <1>3 DEF Wrong
  <2>3. OutboxTyped' /\ dismissed' \subseteq Sessions
    BY <1>3 DEF Wrong, OutboxTyped, TypeOK
  <2> HIDE DEF r
  <2> QED
    BY <2>1, <2>2, <2>3, ReplaceSession
<1> QED
  BY <1>2, <1>3

LEMMA SaveType ==
  ASSUME TypeOK, NEW s \in DOMAIN sessions, NEW p \in Passwords,
         NEW change \in BOOLEAN, NEW old \in SUBSET Passwords,
         Save(s, p, change, old)
  PROVE  SessionsTyped' /\ SavesTyped' /\ OutboxTyped'
<1>1. sessions[s] \in SessionRecords /\ s \in Sessions
  BY DEF TypeOK
<1>2. CASE /\ sessions' = [sessions EXCEPT ![s].busy = TRUE]
           /\ saves' = [t \in DOMAIN saves \cup {s} |->
                          IF t = s THEN [hash |-> p, change |-> change] ELSE saves[t]]
           /\ Send({Cas(s, p, old)})
  <2> DEFINE r == [sessions[s] EXCEPT !.busy = TRUE]
  <2>1. r \in SessionRecords
    BY <1>1 DEF SessionRecords
  <2>2. sessions' = [sessions EXCEPT ![s] = r]
    BY <1>2
  <2>3. SavesTyped'
    BY <1>1, <1>2 DEF SavesTyped, SaveRecords, TypeOK
  <2>4. KnownVersion(s) \in Nat
    BY KnownVersionType DEF AccountRecords
  <2>5. Cas(s, p, old) \in Writes
    BY <1>1, <2>4 DEF Cas, Writes
  <2>6. OutboxTyped'
    BY <1>2, <2>5 DEF Send, OutboxTyped, TypeOK
  <2> HIDE DEF r
  <2> QED
    BY <2>1, <2>2, <2>3, <2>6, ReplaceSession
<1>3. CASE Send({Disconnect(s)}) /\ UNCHANGED <<sessions, saves>>
  BY <1>1, <1>3, SignalTypes DEF Send, OutboxTyped, SessionsTyped, SavesTyped, TypeOK
<1> QED
  BY <1>2, <1>3 DEF Save

LEMMA InitType == Init => TypeOK
<1> SUFFICES ASSUME Init PROVE TypeOK
  OBVIOUS
<1> PICK value \in [Accounts -> InitialValues] :
      stored = [a \in Accounts |-> SetToSeq(value[a])]
  BY DEF Init
<1>1. stored \in [Accounts -> Seq(Values)]
  BY InitialSequence
<1> QED
  BY <1>1 DEF Init, TypeOK

(* The two answers a session awaits. *)
LEMMA ReadType ==
  ASSUME TypeOK, NEW s \in DOMAIN sessions, NEW m \in answers, AccountRead(s, m)
  PROVE  /\ SessionsTyped' /\ OutboxTyped'
         /\ reads' \subseteq Sessions /\ UNCHANGED <<saves, dismissed>>
<1>1. /\ sessions[s] \in SessionRecords /\ s \in Sessions
      /\ m.account \in KnownAccounts
  BY DEF TypeOK, AccountRead, Answers
<1>2. reads' \subseteq Sessions /\ UNCHANGED <<saves, dismissed>>
  BY DEF AccountRead, TypeOK
<1> DEFINE r == [sessions[s] EXCEPT !.account = m.account, !.loaded = TRUE, !.busy = FALSE]
<1>3. r \in SessionRecords
  BY <1>1 DEF SessionRecords
<1>4. CASE sessions' = [sessions EXCEPT ![s] = r] /\ UNCHANGED outbox
  <2>1. OutboxTyped'
    BY <1>4 DEF OutboxTyped, TypeOK
  <2> HIDE DEF r
  <2> QED
    BY <1>2, <1>3, <1>4, <2>1, ReplaceSession
<1>5. CASE Send({Disconnect(s)}) /\ UNCHANGED sessions
  BY <1>1, <1>2, <1>5, SignalTypes DEF Send, OutboxTyped, SessionsTyped, TypeOK
<1> QED
  BY <1>4, <1>5 DEF AccountRead

LEMMA SavedType ==
  ASSUME TypeOK, NEW s \in DOMAIN sessions, NEW m \in answers, AccountSaved(s, m),
         m.outcome = "committed" => m.version > 0
  PROVE  /\ SessionsTyped' /\ SavesTyped' /\ OutboxTyped'
         /\ reads' \subseteq Sessions /\ UNCHANGED dismissed
<1>1. /\ sessions[s] \in SessionRecords /\ s \in Sessions
      /\ m.version \in Nat /\ m.outcome \in {"committed", "refused", "failed"}
      /\ saves[s] \in SaveRecords
  BY DEF TypeOK, AccountSaved, Answers
<1>2. SavesTyped'
  BY DEF AccountSaved, SavesTyped, TypeOK
<1>3. CASE m.outcome = "committed" /\ SaveCommitted(s, saves[s], m.version)
  <2> DEFINE account == {[hash |-> saves[s].hash, version |-> m.version]}
             r == [sessions[s] EXCEPT !.account = account, !.busy = FALSE, !.failures = 0]
  <2>1. account \in KnownAccounts
    BY <1>1, <1>3 DEF KnownAccounts, AccountRecords, SaveRecords, Values
  <2>2. r \in SessionRecords
    BY <1>1, <2>1 DEF SessionRecords
  <2>3. CASE sessions' = [sessions EXCEPT ![s] = r] /\ UNCHANGED <<outbox, dismissed, reads>>
    <3>1. OutboxTyped' /\ reads' \subseteq Sessions
      BY <2>3 DEF OutboxTyped, TypeOK
    <3> HIDE DEF r
    <3> QED
      BY <1>2, <2>2, <2>3, <3>1, ReplaceSession
  <2>4. CASE Authenticate(s, account) /\ UNCHANGED reads
    <3>1. reads' \subseteq Sessions
      BY <2>4 DEF TypeOK
    <3> HIDE DEF account
    <3> QED
      BY <1>2, <2>1, <2>4, <3>1, AuthenticateType
  <2> QED
    BY <1>3, <2>3, <2>4 DEF SaveCommitted
<1>4. CASE SaveRefused(s)
  <2> DEFINE r == [sessions[s] EXCEPT !.busy = TRUE, !.loaded = FALSE]
  <2>1. r \in SessionRecords
    BY <1>1 DEF SessionRecords
  <2>2. sessions' = [sessions EXCEPT ![s] = r]
    BY <1>4 DEF SaveRefused
  <2>3. OutboxTyped' /\ reads' \subseteq Sessions /\ UNCHANGED dismissed
    BY <1>1, <1>4, SignalTypes DEF SaveRefused, Send, OutboxTyped, TypeOK
  <2> HIDE DEF r
  <2> QED
    BY <1>2, <2>1, <2>2, <2>3, ReplaceSession
<1>5. CASE SaveFailed(s)
  BY <1>1, <1>2, <1>5, SignalTypes
     DEF SaveFailed, Send, OutboxTyped, SessionsTyped, TypeOK
<1> QED
  BY <1>1, <1>3, <1>4, <1>5 DEF AccountSaved

LEMMA CommandType ==
  ASSUME TypeOK, Command
  PROVE  TypeOK'
<1>1. ASSUME NEW s \in Sessions, NEW p \in Passwords, Register(s, p)
      PROVE  TypeOK'
  <2>1. s \in DOMAIN sessions /\ {} \in SUBSET Passwords
    BY <1>1 DEF Register, Ready
  <2>2. SessionsTyped' /\ SavesTyped' /\ OutboxTyped'
    BY <1>1, <2>1, SaveType DEF Register
  <2>3. proof' \in [Sessions -> SUBSET Passwords]
    BY <1>1 DEF Register, Prove, TypeOK
  <2> QED
    BY <1>1, <2>2, <2>3 DEF Register, TypeOK, SessionsTyped, SavesTyped, OutboxTyped
<1>2. ASSUME NEW s \in Sessions, NEW p \in Passwords, Login(s, p)
      PROVE  TypeOK'
  <2>1. s \in DOMAIN sessions
    BY <1>2 DEF Login, Ready
  <2> PICK account \in sessions[s].account :
        IF p = account.hash THEN Authenticate(s, {account}) /\ Prove(s, p)
                            ELSE Wrong(s) /\ UNCHANGED proof
    BY <1>2 DEF Login
  <2>2. {account} \in KnownAccounts
    BY <2>1, KnownVersionType DEF KnownAccounts
  <2>3. /\ SessionsTyped' /\ OutboxTyped' /\ dismissed' \subseteq Sessions
        /\ proof' \in [Sessions -> SUBSET Passwords]
    <3>1. CASE Authenticate(s, {account}) /\ Prove(s, p)
      BY <2>1, <2>2, <3>1, AuthenticateType DEF Prove, TypeOK
    <3>2. CASE Wrong(s) /\ UNCHANGED proof
      BY <2>1, <3>2, WrongType DEF TypeOK
    <3> QED
      BY <3>1, <3>2
  <2> QED
    BY <1>2, <2>3 DEF Login, TypeOK, SessionsTyped, OutboxTyped
<1>3. ASSUME NEW s \in Sessions, NEW old \in Passwords, NEW p \in Passwords,
             ChangePassword(s, old, p)
      PROVE  TypeOK'
  <2>1. s \in DOMAIN sessions /\ {old} \in SUBSET Passwords
    BY <1>3 DEF ChangePassword, Ready
  <2>2. \/ Save(s, p, TRUE, {old}) /\ UNCHANGED dismissed
        \/ Wrong(s) /\ UNCHANGED saves
    BY <1>3 DEF ChangePassword
  <2>3. /\ SessionsTyped' /\ SavesTyped' /\ OutboxTyped' /\ dismissed' \subseteq Sessions
    BY <2>1, <2>2, SaveType, WrongType DEF TypeOK, SavesTyped
  <2> QED
    BY <1>3, <2>3 DEF ChangePassword, TypeOK, SessionsTyped, SavesTyped, OutboxTyped
<1>4. ASSUME NEW s \in Sessions, Unknown(s)
      PROVE  TypeOK'
  BY <1>4, SignalTypes DEF Unknown, Send, TypeOK, plugin, history
<1> QED
  BY <1>1, <1>2, <1>3, <1>4 DEF Command

LEMMA DeliverType ==
  ASSUME TypeOK, AllSound, Deliver
  PROVE  TypeOK'
<1> PICK m \in answers :
      /\ answers' = answers \ {m}
      /\ \/ AccountRead(m.session, m)
         \/ AccountSaved(m.session, m)
         \/ Ignored(m.session, m)
      /\ UNCHANGED <<link, timers, stored, proof, since, calls>>
  BY DEF Deliver
<1> DEFINE s == m.session
<1>1. s \in Sessions /\ answers' \subseteq Answers /\ Sound(s)
  BY DEF TypeOK, Answers, AllSound
<1>2. CASE AccountRead(s, m)
  <2>1. s \in DOMAIN sessions
    BY <1>1, <1>2 DEF Sound, Waiting, AccountRead
  <2>2. /\ SessionsTyped' /\ OutboxTyped'
        /\ reads' \subseteq Sessions /\ UNCHANGED <<saves, dismissed>>
    BY <1>2, <2>1, ReadType
  <2> QED
    BY <1>1, <2>2 DEF TypeOK, SessionsTyped, OutboxTyped
<1>3. CASE AccountSaved(s, m)
  <2>1. s \in DOMAIN sessions /\ (m.outcome = "committed" => m.version > 0)
    BY <1>1, <1>3 DEF Sound, Waiting, Informed, AccountSaved
  <2>2. /\ SessionsTyped' /\ SavesTyped' /\ OutboxTyped'
        /\ reads' \subseteq Sessions /\ UNCHANGED dismissed
    BY <1>3, <2>1, SavedType
  <2> QED
    BY <1>1, <2>2 DEF TypeOK, SessionsTyped, SavesTyped, OutboxTyped
<1>4. CASE Ignored(s, m)
  BY <1>1, <1>4 DEF Ignored, TypeOK, plugin
<1> QED
  BY <1>2, <1>3, <1>4

(* A read finds nothing, or the account stored at the version. *)
LEMMA FoundType ==
  ASSUME TypeOK, NEW a \in Accounts, NEW v \in 0 .. Version(a)
  PROVE  Found(a, v) \in KnownAccounts
<1>1. CASE v = 0
  BY <1>1 DEF Found, KnownAccounts
<1>2. CASE v # 0
  <2>1. stored[a] \in Seq(Values) /\ v \in 1 .. Len(stored[a])
    BY <1>2 DEF TypeOK, Version
  <2>2. stored[a][v] \in Values
    BY <2>1
  <2> QED
    BY <1>2, <2>1, <2>2 DEF Found, KnownAccounts, AccountRecords
<1> QED
  BY <1>1, <1>2

LEMMA ExecuteType ==
  ASSUME TypeOK, Execute
  PROVE  TypeOK'
<1> PICK call \in calls :
      /\ calls' = calls \ {call}
      /\ ExecuteGet(call) \/ ExecuteCas(call)
      /\ UNCHANGED <<plugin, link, timers, history, outbox>>
  BY DEF Execute
<1> DEFINE a == AccountOf[call.session]
<1>1. call \in Gets \cup Writes /\ call.session \in Sessions
  BY DEF TypeOK, Gets, Writes
<1>2. a \in Accounts /\ Version(a) \in Nat /\ stored[a] \in Seq(Values)
  BY <1>1, VersionType, SessionsAssumption DEF TypeOK
<1>3. CASE ExecuteGet(call)
  <2>1. Found(a, Version(a)) \in KnownAccounts
    BY <1>2, FoundType
  <2>2. answers' \subseteq Answers /\ UNCHANGED stored
    BY <1>1, <1>3, <2>1 DEF ExecuteGet, ReadOutcomes, Answers, TypeOK
  <2> QED
    BY <2>2 DEF TypeOK, plugin, history
<1>4. CASE ExecuteCas(call)
  <2> DEFINE record == [version |-> Version(a), value |-> stored[a]]
             longer == Append(stored[a], call.value)
  <2> PICK x \in CasExecutions(record, call.expected, longer) :
        /\ stored' = [stored EXCEPT ![a] = x.record.value]
        /\ answers' = answers \cup {[type |-> "cas", session |-> call.session,
                                     outcome |-> x.outcome, version |-> x.record.version]}
    BY <1>4 DEF ExecuteCas
  <2>1. longer \in Seq(Values)
    BY <1>1, <1>2, <1>4 DEF ExecuteCas, Gets, Writes, Values
  <2>2. /\ x.outcome \in {"committed", "refused", "failed"}
        /\ x.record.value \in Seq(Values) /\ x.record.version \in Nat
    <3> HIDE DEF longer
    <3> QED
      BY <1>2, <2>1, WriteOutcomes
  <2>3. stored' \in [Accounts -> Seq(Values)]
    BY <2>2 DEF TypeOK
  <2>4. answers' \subseteq Answers
    BY <1>1, <2>2 DEF Answers, TypeOK
  <2> QED
    BY <2>3, <2>4 DEF TypeOK, plugin, history
<1> QED
  BY <1>3, <1>4

LEMMA SessionStepType ==
  ASSUME TypeOK, NEW s \in Sessions, Joined(s) \/ Left(s) \/ TimerFired(s) \/ Quit(s)
  PROVE  TypeOK'
<1>1. CASE Joined(s)
  <2>1. NewSession \in SessionRecords
    BY DEF NewSession, SessionRecords, KnownAccounts
  <2>2. SessionsTyped'
    BY <1>1, <2>1 DEF Joined, SessionsTyped, TypeOK
  <2>3. since' \in [Sessions -> Nat]
    BY <1>1, VersionType, SessionsAssumption DEF Joined, TypeOK
  <2>4. OutboxTyped'
    BY <1>1, SignalTypes DEF Joined, Send, OutboxTyped, TypeOK
  <2> QED
    BY <1>1, <2>2, <2>3, <2>4 DEF Joined, TypeOK, SessionsTyped, OutboxTyped
<1>2. CASE Left(s)
  <2>1. SessionsTyped' /\ SavesTyped'
    BY <1>2 DEF Left, SessionsTyped, SavesTyped, TypeOK
  <2>2. OutboxTyped'
    BY <1>2, SignalTypes DEF Left, Send, OutboxTyped, TypeOK
  <2> QED
    BY <1>2, <2>1, <2>2
       DEF Left, TypeOK, SessionsTyped, SavesTyped, OutboxTyped, history
<1>3. CASE TimerFired(s)
  <2>1. CASE s \in DOMAIN sessions /\ ~ sessions[s].authenticated
    <3> DEFINE r == [sessions[s] EXCEPT !.busy = TRUE]
    <3>1. r \in SessionRecords
      BY <2>1 DEF SessionRecords, TypeOK
    <3>2. sessions' = [sessions EXCEPT ![s] = r]
      BY <1>3, <2>1 DEF TimerFired
    <3>3. SavesTyped' /\ OutboxTyped' /\ dismissed' \subseteq Sessions
      BY <1>3, <2>1, SignalTypes DEF TimerFired, Send, SavesTyped, OutboxTyped, TypeOK
    <3> HIDE DEF r
    <3>4. SessionsTyped'
      BY <2>1, <3>1, <3>2, ReplaceSession
    <3> QED
      BY <1>3, <2>1, <3>3, <3>4
         DEF TimerFired, TypeOK, SessionsTyped, SavesTyped, OutboxTyped
  <2>2. CASE ~ (s \in DOMAIN sessions /\ ~ sessions[s].authenticated)
    BY <1>3, <2>2 DEF TimerFired, TypeOK, plugin
  <2> QED
    BY <2>1, <2>2
<1>4. CASE Quit(s)
  BY <1>4 DEF Quit, TypeOK, plugin, history
<1> QED
  BY <1>1, <1>2, <1>3, <1>4

LEMMA AcceptType ==
  ASSUME TypeOK, AcceptBatch
  PROVE  TypeOK'
<1>1. timers' \subseteq Sessions
  BY DEF AcceptBatch, TypeOK, Signals, Gets, Writes
<1>2. calls' \subseteq Gets \cup Writes
  BY DEF AcceptBatch, TypeOK, Signals
<1>3. link' \in [Sessions -> {"new", "locked", "open", "closed", "gone"}]
  BY DEF AcceptBatch, TypeOK
<1> QED
  BY <1>1, <1>2, <1>3 DEF AcceptBatch, TypeOK, plugin, history

LEMMA StepType ==
  ASSUME TypeOK, AllSound, [Next]_vars
  PROVE  TypeOK'
<1>1. CASE Command
  BY <1>1, CommandType
<1>2. CASE Deliver
  BY <1>2, DeliverType
<1>3. CASE AcceptBatch
  BY <1>3, AcceptType
<1>4. CASE Execute
  BY <1>4, ExecuteType
<1>5. CASE Restart
  BY <1>5 DEF Restart, TypeOK, history
<1>6. ASSUME NEW s \in Sessions, Joined(s) \/ Left(s) \/ TimerFired(s) \/ Quit(s)
      PROVE  TypeOK'
  BY <1>6, SessionStepType
<1>7. CASE UNCHANGED vars
  BY <1>7 DEF vars, plugin, history, TypeOK
<1> QED
  BY <1>1, <1>2, <1>3, <1>4, <1>5, <1>6, <1>7 DEF Next

-----------------------------------------------------------------------------
(* What a step leaves alone *)

(* Accounts only gain versions. *)
Grows ==
  \A a \in Accounts :
     /\ Len(stored[a]) <= Len(stored'[a])
     /\ \A v \in 1 .. Len(stored[a]) : stored'[a][v] = stored[a][v]

(* The step is about another session than t. *)
Spared(t) ==
  /\ t \in DOMAIN sessions' <=> t \in DOMAIN sessions
  /\ t \in DOMAIN sessions => sessions'[t] = sessions[t]
  /\ t \in reads' <=> t \in reads
  /\ t \in DOMAIN saves' <=> t \in DOMAIN saves
  /\ t \in DOMAIN saves => saves'[t] = saves[t]
  /\ link'[t] = link[t] /\ proof'[t] = proof[t] /\ since'[t] = since[t]
  /\ t \in dismissed' <=> t \in dismissed
  /\ \A m : m.session = t =>
        /\ m \in outbox' <=> m \in outbox
        /\ m \in calls' <=> m \in calls
        /\ m \in answers' <=> m \in answers

LEMMA UnlockSession == ASSUME NEW t PROVE Unlock(t).session = t /\ Unlock(t).type = "unlock"
BY DEF Unlock

LEMMA StoredStays ==
  ASSUME TypeOK, TypeOK', Grows, NEW t \in Sessions, since'[t] = since[t]
  PROVE  /\ Version(AccountOf[t]) \in Nat /\ Version(AccountOf[t])' \in Nat
         /\ Version(AccountOf[t]) <= Version(AccountOf[t])'
         /\ \A v \in 1 .. Version(AccountOf[t]) :
               stored'[AccountOf[t]][v] = stored[AccountOf[t]][v]
         /\ \A x : x.version \in Nat /\ Known(t, x) => Known(t, x)'
         /\ Earned(t) /\ proof'[t] = proof[t] => Earned(t)'
<1>1. AccountOf[t] \in Accounts
  BY SessionsAssumption
<1>2. /\ Version(AccountOf[t]) \in Nat /\ Version(AccountOf[t])' \in Nat
      /\ Version(AccountOf[t]) <= Version(AccountOf[t])'
      /\ \A v \in 1 .. Version(AccountOf[t]) :
            stored'[AccountOf[t]][v] = stored[AccountOf[t]][v]
  BY <1>1 DEF TypeOK, Version, Grows
<1>3. ASSUME NEW x, x.version \in Nat, Known(t, x) PROVE Known(t, x)'
  BY <1>2, <1>3 DEF Known
<1>4. ASSUME Earned(t), proof'[t] = proof[t] PROVE Earned(t)'
  BY <1>2, <1>4 DEF Earned
<1> QED
  BY <1>2, <1>3, <1>4

LEMMA AccountVersions ==
  ASSUME TypeOK
  PROVE  /\ \A t \in DOMAIN sessions : \A x \in sessions[t].account : x.version \in Nat
         /\ \A m \in answers : m.type = "get" => \A x \in m.account : x.version \in Nat
         /\ \A m \in answers : m.type = "cas" => m.version \in Nat
<1>1. ASSUME NEW k \in KnownAccounts, NEW x \in k PROVE x.version \in Nat
  BY <1>1 DEF KnownAccounts, AccountRecords
<1>2. \A t \in DOMAIN sessions : sessions[t].account \in KnownAccounts
  BY DEF TypeOK, SessionRecords
<1>3. \A m \in answers : m.type = "get" => m.account \in KnownAccounts
  BY DEF TypeOK, Answers
<1>4. \A m \in answers : m.type = "cas" => m.version \in Nat
  BY DEF TypeOK, Answers
<1> QED
  BY <1>1, <1>2, <1>3, <1>4

(* A step about other sessions keeps t sound. *)
LEMMA Elsewhere ==
  ASSUME TypeOK, TypeOK', Grows, NEW t \in Sessions, Spared(t), Sound(t)
  PROVE  Sound(t)'
<1>1. Untouched(t)'
  BY DEF Spared, Sound, Untouched
<1>2. OneRequest(t)'
  BY DEF Spared, Sound, OneRequest, Concerns
<1>3. Waiting(t)'
  BY DEF Spared, Sound, Waiting, Concerns, Awaited, Silenced
<1>4. Informed(t)'
  <2>1. since'[t] = since[t]
    BY DEF Spared
  <2>2. since[t] <= Version(AccountOf[t])'
    BY <2>1, StoredStays DEF Sound, Informed, TypeOK
  <2>3. ASSUME t \in DOMAIN sessions', NEW x \in sessions'[t].account PROVE Known(t, x)'
    BY <2>1, <2>3, StoredStays, AccountVersions DEF Sound, Informed, Spared
  <2>4. ASSUME NEW m \in answers', m.session = t, m.type = "get"
        PROVE  /\ \A x \in m.account : Known(t, x)'
               /\ t \in reads' /\ sessions'[t].account # {} => m.account # {}
    <3>1. m \in answers
      BY <2>4 DEF Spared
    <3>2. \A x \in m.account : Known(t, x)'
      BY <2>1, <2>4, <3>1, StoredStays, AccountVersions DEF Sound, Informed
    <3>3. t \in reads' /\ sessions'[t].account # {} => m.account # {}
      BY <2>4, <3>1 DEF Spared, Sound, Informed, Waiting
    <3> QED
      BY <3>2, <3>3
  <2>5. ASSUME NEW m \in answers', m.session = t, m.type = "cas",
               m.outcome = "committed", t \in DOMAIN saves'
        PROVE  /\ m.version > 0
               /\ Known(t, [hash |-> saves[t].hash, version |-> m.version])'
    <3>1. m \in answers /\ t \in DOMAIN saves /\ saves'[t] = saves[t]
      BY <2>5 DEF Spared
    <3>2. /\ m.version > 0
          /\ Known(t, [hash |-> saves[t].hash, version |-> m.version])
      BY <2>5, <3>1 DEF Sound, Informed
    <3>3. m.version \in Nat
      BY <2>5, <3>1, AccountVersions
    <3> QED
      BY <2>1, <3>1, <3>2, <3>3, StoredStays
  <2> QED
    BY <2>1, <2>2, <2>3, <2>4, <2>5 DEF Informed
<1>5. Checked(t)'
  <2> SUFFICES ASSUME NEW m \in outbox' \cup calls', m.session = t, m.type = "cas"
               PROVE  /\ t \in DOMAIN saves' => m.value = saves'[t].hash
                      /\ \/ m.expected = 0
                         \/ /\ m.expected \in 1 .. Version(AccountOf[t])'
                            /\ stored'[AccountOf[t]][m.expected] \in m.old
    BY DEF Checked
  <2>1. m \in outbox \cup calls
    BY DEF Spared
  <2>2. t \in DOMAIN saves' => m.value = saves'[t].hash
    BY <2>1 DEF Spared, Sound, Checked
  <2>3. \/ m.expected = 0
        \/ /\ m.expected \in 1 .. Version(AccountOf[t])
           /\ stored[AccountOf[t]][m.expected] \in m.old
    BY <2>1 DEF Sound, Checked
  <2> QED
    BY <2>2, <2>3, StoredStays DEF Spared
<1>6. Unlocked(t)'
  <2>1. Unlock(t) \in outbox' <=> Unlock(t) \in outbox
    BY UnlockSession DEF Spared
  <2>2. Earned(t) => Earned(t)'
    BY StoredStays DEF Spared
  <2> QED
    BY <2>1, <2>2 DEF Spared, Sound, Unlocked, Unlock
<1>7. Dismissed(t)'
  BY DEF Spared, Sound, Dismissed, Silenced
<1> QED
  BY <1>1, <1>2, <1>3, <1>4, <1>5, <1>6, <1>7 DEF Sound

LEMMA OneSession ==
  ASSUME TypeOK, TypeOK', AllSound, Grows, NEW s \in Sessions, Sound(s)',
         \A t \in Sessions \ {s} : Spared(t)
  PROVE  AllSound'
BY Elsewhere DEF AllSound

LEMMA StoredUnchanged ==
  ASSUME UNCHANGED stored
  PROVE  Grows
BY DEF Grows

-----------------------------------------------------------------------------
(* Commands *)

Idle(s) == \A m \in outbox \cup calls \cup answers : ~ Concerns(m, s)

(* A session that has nothing under way after a step is sound if it knows  *)
(* what was stored.                                                        *)
LEMMA IdleIsSound ==
  ASSUME NEW s \in Sessions, Idle(s)', s \notin reads', s \notin DOMAIN saves',
         link'[s] # "new", since'[s] <= Version(AccountOf[s])',
         s \in DOMAIN sessions' => \A x \in sessions'[s].account : Known(s, x)',
         s \in DOMAIN sessions' /\ s \in dismissed' => sessions'[s].busy,
         Unlocked(s)'
  PROVE  Sound(s)'
BY DEF Idle, Sound, Untouched, OneRequest, Waiting, Informed, Checked, Dismissed,
       Silenced, Concerns

(* A command is handled only when nothing is under way. *)
LEMMA ReadyIsIdle ==
  ASSUME NEW s \in Sessions, Sound(s), Ready(s)
  PROVE  /\ s \in DOMAIN sessions /\ s \notin reads /\ s \notin DOMAIN saves
         /\ s \notin dismissed /\ link[s] # "new" /\ Idle(s)
BY DEF Ready, Connected, Sound, Waiting, Dismissed, Silenced, Awaited, Idle

(* The commands sent about a session. *)
LEMMA SignalSessions ==
  ASSUME NEW s
  PROVE  /\ \A m \in {Unlock(s), Disconnect(s), ScheduleTimer(s), CancelTimer(s)} :
               m.session = s /\ m.type \notin {"get", "cas"}
         /\ Get(s).session = s /\ Get(s).type = "get"
         /\ \A t : Unlock(t) \notin {Disconnect(s), ScheduleTimer(s), CancelTimer(s), Get(s)}
         /\ \A t, p, old : Unlock(t) # Cas(s, p, old)
         /\ \A p, old : Cas(s, p, old).session = s /\ Cas(s, p, old).type = "cas"
BY DEF Unlock, Disconnect, ScheduleTimer, CancelTimer, Get, Cas

(* A handler of s that sends commands about s only. *)
LEMMA OthersSpared ==
  ASSUME TypeOK, NEW s \in Sessions, NEW commands, \A m \in commands : m.session = s,
         Send(commands) \/ UNCHANGED outbox, UNCHANGED calls,
         UNCHANGED answers \/ \E m \in answers : m.session = s /\ answers' = answers \ {m},
         \A t \in Sessions \ {s} :
            /\ t \in DOMAIN sessions' <=> t \in DOMAIN sessions
            /\ t \in DOMAIN sessions => sessions'[t] = sessions[t]
            /\ t \in reads' <=> t \in reads
            /\ t \in DOMAIN saves' <=> t \in DOMAIN saves
            /\ t \in DOMAIN saves => saves'[t] = saves[t]
            /\ link'[t] = link[t] /\ proof'[t] = proof[t] /\ since'[t] = since[t]
            /\ t \in dismissed' <=> t \in dismissed
  PROVE  \A t \in Sessions \ {s} : Spared(t)
BY DEF Spared, Send

(* authenticate: the account was stored, and nothing is under way. *)
LEMMA AuthenticateSound ==
  ASSUME TypeOK, NEW s \in DOMAIN sessions, Sound(s), NEW x, Known(s, x),
         Authenticate(s, {x}), UNCHANGED <<link, stored, since, calls, reads>>,
         answers' \subseteq answers, Idle(s)' \/ Idle(s),
         s \notin reads, s \notin DOMAIN saves', s \notin dismissed, Earned(s)'
  PROVE  Sound(s)'
<1>1. s \in Sessions /\ link'[s] # "new"
  BY DEF TypeOK, Sound, Untouched
<1>2. Idle(s)'
  BY SignalSessions DEF Idle, Authenticate, Send, Concerns
<1>3. s \in DOMAIN sessions' /\ sessions'[s].account = {x} /\ s \notin dismissed'
  BY DEF Authenticate, TypeOK, SessionRecords
<1>4. Known(s, x)' /\ since'[s] <= Version(AccountOf[s])'
  BY DEF Known, Version, Sound, Informed
<1>5. Unlocked(s)'
  BY <1>3 DEF Unlocked
<1> QED
  BY <1>1, <1>2, <1>3, <1>4, <1>5, IdleIsSound

(* wrong *)
LEMMA WrongSound ==
  ASSUME TypeOK, NEW s \in DOMAIN sessions, Sound(s), Ready(s), Wrong(s),
         UNCHANGED <<reads, saves, link, proof, stored, since, calls, answers>>
  PROVE  Sound(s)'
<1>1. s \in Sessions /\ link'[s] # "new" /\ Idle(s)
      /\ s \notin reads' /\ s \notin DOMAIN saves' /\ s \notin dismissed
  BY ReadyIsIdle DEF TypeOK
<1>2. Idle(s)' /\ (Unlock(s) \in outbox' <=> Unlock(s) \in outbox)
  BY <1>1, SignalSessions DEF Idle, Wrong, Send, Concerns
<1>3. /\ s \in DOMAIN sessions' /\ sessions'[s].account = sessions[s].account
      /\ sessions'[s].authenticated => sessions[s].authenticated
      /\ s \in dismissed' => sessions'[s].busy
  <2>1. sessions[s] \in SessionRecords
    BY DEF TypeOK
  <2>2. CASE sessions[s].failures + 1 >= FailureLimit
    <3> DEFINE n == sessions[s].failures + 1
               r == [sessions[s] EXCEPT !.failures = n, !.authenticated = FALSE,
                                        !.busy = TRUE]
    <3>1. sessions' = [sessions EXCEPT ![s] = r]
      BY <2>2 DEF Wrong
    <3> HIDE DEF n
    <3>2. r.account = sessions[s].account /\ ~ r.authenticated /\ r.busy
      BY <2>1 DEF SessionRecords
    <3> HIDE DEF r
    <3> QED
      BY <3>1, <3>2
  <2>3. CASE ~ (sessions[s].failures + 1 >= FailureLimit)
    BY <1>1, <2>1, <2>3 DEF Wrong, TypeOK, SessionRecords
  <2> QED
    BY <2>2, <2>3
<1>4. /\ since'[s] <= Version(AccountOf[s])'
      /\ \A x \in sessions'[s].account : Known(s, x)'
  BY <1>3 DEF Known, Version, Sound, Informed
<1>5. Unlocked(s)'
  BY <1>2, <1>3 DEF Unlocked, Sound, Earned, Version, Unlock
<1> QED
  BY <1>1, <1>2, <1>3, <1>4, <1>5, IdleIsSound

(* save, or a hash that could not be made; old holds the known password.   *)
LEMMA SaveSound ==
  ASSUME TypeOK, TypeOK', NEW s \in Sessions, Sound(s), Ready(s),
         NEW p \in Passwords, NEW change \in BOOLEAN, NEW old \in SUBSET Passwords,
         Save(s, p, change, old),
         UNCHANGED <<reads, link, stored, since, dismissed, calls, answers>>,
         change \/ p \in proof'[s],
         UNCHANGED proof \/ sessions[s].account = {},
         \A x \in sessions[s].account : x.hash \in old
  PROVE  Sound(s)'
<1>1. /\ s \in DOMAIN sessions /\ s \notin reads /\ s \notin DOMAIN saves
      /\ s \notin dismissed /\ link[s] # "new" /\ Idle(s)
      /\ sessions[s].loaded /\ sessions[s] \in SessionRecords
  BY ReadyIsIdle DEF Ready, TypeOK
<1>2. /\ sessions'[s].account = sessions[s].account
      /\ sessions'[s].authenticated = sessions[s].authenticated
      /\ s \in DOMAIN sessions' /\ sessions'[s].loaded
  BY <1>1 DEF Save, SessionRecords, TypeOK
<1>3. Unlock(s) \in outbox' <=> Unlock(s) \in outbox
  BY SignalSessions DEF Save, Send
<1>4. Unlocked(s)'
  BY <1>1, <1>2, <1>3 DEF Unlocked, Sound, Earned, Version, Unlock
<1>5. /\ since'[s] <= Version(AccountOf[s])'
      /\ \A x \in sessions'[s].account : Known(s, x)'
  BY <1>1, <1>2 DEF Known, Version, Sound, Informed
<1>6. CASE /\ sessions' = [sessions EXCEPT ![s].busy = TRUE]
           /\ saves' = [t \in DOMAIN saves \cup {s} |->
                          IF t = s THEN [hash |-> p, change |-> change] ELSE saves[t]]
           /\ Send({Cas(s, p, old)})
  <2> DEFINE write == Cas(s, p, old)
  <2>1. /\ outbox' = outbox \cup {write}
        /\ write.session = s /\ write.type = "cas" /\ write.value = p
        /\ write.expected = KnownVersion(s) /\ write.old = old
    BY <1>6 DEF Send, Cas
  <2>2. \/ write.expected = 0
        \/ /\ write.expected \in 1 .. Version(AccountOf[s])
           /\ stored[AccountOf[s]][write.expected] \in write.old
    <3>1. CASE sessions[s].account = {}
      BY <1>1, <2>1, <3>1, KnownVersionType
    <3>2. ASSUME NEW x \in sessions[s].account
          PROVE  /\ write.expected \in 1 .. Version(AccountOf[s])
                 /\ stored[AccountOf[s]][write.expected] \in write.old
      <4>1. KnownVersion(s) = x.version /\ Known(s, x)
        BY <1>1, KnownVersionType DEF Sound, Informed
      <4> QED
        BY <2>1, <4>1 DEF Known
    <3> QED
      BY <3>1, <3>2
  <2> HIDE DEF write
  <2>3. \A m \in outbox' \cup calls' \cup answers' : Concerns(m, s) => m = write
    BY <1>1, <2>1 DEF Idle
  <2>4. write \notin calls' /\ write \notin answers'
    BY <1>1, <2>1 DEF Idle, Concerns
  <2>5. /\ s \in DOMAIN saves' /\ saves'[s].hash = p /\ saves'[s].change = change
        /\ sessions'[s].busy
    BY <1>1, <1>6 DEF TypeOK, SessionRecords
  <2>6. OneRequest(s)'
    BY <2>3, <2>4 DEF OneRequest
  <2>7. Waiting(s)'
    BY <1>1, <1>2, <2>1, <2>3, <2>5 DEF Waiting, Awaited
  <2>8. Informed(s)'
    BY <1>5, <2>3, <2>4 DEF Informed, Concerns
  <2>9. Checked(s)'
    BY <2>1, <2>2, <2>3, <2>5 DEF Checked, Concerns, Version
  <2> QED
    BY <1>1, <1>4, <2>6, <2>7, <2>8, <2>9 DEF Sound, Untouched, Dismissed
<1>7. CASE Send({Disconnect(s)}) /\ UNCHANGED <<sessions, saves>>
  <2>1. Idle(s)'
    BY <1>1, <1>7, SignalSessions DEF Idle, Send, Concerns
  <2> QED
    BY <1>1, <1>2, <1>4, <1>5, <1>7, <2>1, IdleIsSound
<1> QED
  BY <1>6, <1>7 DEF Save

LEMMA SaveSpares ==
  ASSUME TypeOK, NEW s \in Sessions, NEW p, NEW change, NEW old, Save(s, p, change, old),
         UNCHANGED <<reads, link, since, dismissed, calls, answers>>,
         \A t \in Sessions \ {s} : proof'[t] = proof[t]
  PROVE  \A t \in Sessions \ {s} : Spared(t)
<1>1. \A m \in {Cas(s, p, old)} : m.session = s
  BY SignalSessions
<1>2. \A m \in {Disconnect(s)} : m.session = s
  BY SignalSessions
<1>3. \A t \in Sessions \ {s} :
            /\ t \in DOMAIN sessions' <=> t \in DOMAIN sessions
            /\ t \in DOMAIN sessions => sessions'[t] = sessions[t]
            /\ t \in DOMAIN saves' <=> t \in DOMAIN saves
            /\ t \in DOMAIN saves => saves'[t] = saves[t]
  BY DEF Save, TypeOK
<1>4. Send({Cas(s, p, old)}) \/ Send({Disconnect(s)})
  BY DEF Save
<1> QED
  BY <1>1, <1>2, <1>3, <1>4, OthersSpared

LEMMA AuthenticateSpares ==
  ASSUME TypeOK, NEW s \in DOMAIN sessions, NEW account, Authenticate(s, account),
         UNCHANGED <<link, since, calls>>,
         UNCHANGED answers \/ \E m \in answers : m.session = s /\ answers' = answers \ {m},
         \A t \in Sessions \ {s} :
            /\ t \in reads' <=> t \in reads
            /\ t \in DOMAIN saves' <=> t \in DOMAIN saves
            /\ t \in DOMAIN saves => saves'[t] = saves[t]
            /\ proof'[t] = proof[t]
  PROVE  \A t \in Sessions \ {s} : Spared(t)
<1>1. \A m \in {Unlock(s), CancelTimer(s)} : m.session = s
  BY SignalSessions
<1>2. \A t \in Sessions \ {s} :
            /\ t \in DOMAIN sessions' <=> t \in DOMAIN sessions
            /\ t \in DOMAIN sessions => sessions'[t] = sessions[t]
  BY DEF Authenticate, TypeOK
<1>3. Send({Unlock(s), CancelTimer(s)}) /\ UNCHANGED dismissed /\ s \in Sessions
  BY DEF Authenticate, TypeOK
<1> QED
  BY <1>1, <1>2, <1>3, OthersSpared

LEMMA WrongSpares ==
  ASSUME TypeOK, NEW s \in DOMAIN sessions, Wrong(s),
         UNCHANGED <<reads, saves, link, proof, since, calls, answers>>
  PROVE  \A t \in Sessions \ {s} : Spared(t)
<1>1. \A m \in {Disconnect(s)} : m.session = s
  BY SignalSessions
<1>2. \A t \in Sessions \ {s} :
            /\ t \in DOMAIN sessions' <=> t \in DOMAIN sessions
            /\ t \in DOMAIN sessions => sessions'[t] = sessions[t]
            /\ t \in dismissed' <=> t \in dismissed
  BY DEF Wrong, TypeOK
<1>3. (Send({Disconnect(s)}) \/ UNCHANGED outbox) /\ s \in Sessions
  BY DEF Wrong, TypeOK
<1> QED
  BY <1>1, <1>2, <1>3, OthersSpared

LEMMA CommandSound ==
  ASSUME TypeOK, TypeOK', AllSound, Command
  PROVE  AllSound'
<1>1. ASSUME NEW s \in Sessions, NEW p \in Passwords, Register(s, p)
      PROVE  AllSound'
  <2>1. /\ Sound(s) /\ Ready(s) /\ Save(s, p, FALSE, {}) /\ sessions[s].account = {}
        /\ UNCHANGED <<reads, link, timers, stored, since, dismissed, calls, answers>>
        /\ p \in proof'[s] /\ \A t \in Sessions \ {s} : proof'[t] = proof[t]
    BY <1>1 DEF AllSound, Register, Prove, TypeOK
  <2>2. Sound(s)'
    BY <2>1, SaveSound
  <2>3. \A t \in Sessions \ {s} : Spared(t)
    BY <2>1, SaveSpares
  <2> QED
    BY <2>1, <2>2, <2>3, OneSession, StoredUnchanged
<1>2. ASSUME NEW s \in Sessions, NEW p \in Passwords, Login(s, p)
      PROVE  AllSound'
  <2> PICK x \in sessions[s].account :
        IF p = x.hash THEN Authenticate(s, {x}) /\ Prove(s, p)
                      ELSE Wrong(s) /\ UNCHANGED proof
    BY <1>2 DEF Login
  <2>1. /\ Sound(s) /\ Ready(s)
        /\ UNCHANGED <<reads, saves, link, timers, stored, since, calls, answers>>
    BY <1>2 DEF AllSound, Login
  <2>2. /\ s \in DOMAIN sessions /\ s \notin reads /\ s \notin DOMAIN saves
        /\ s \notin dismissed /\ Idle(s) /\ Known(s, x)
    BY <2>1, ReadyIsIdle DEF Sound, Informed
  <2>3. CASE Authenticate(s, {x}) /\ p = x.hash /\ Prove(s, p)
    <3>1. proof'[s] = {p} /\ \A t \in Sessions \ {s} : proof'[t] = proof[t]
      BY <2>3 DEF Prove, TypeOK
    <3>2. Earned(s)'
      BY <2>1, <2>2, <2>3, <3>1 DEF Earned, Known, Version
    <3>3. Sound(s)'
      BY <2>1, <2>2, <2>3, <3>2, AuthenticateSound
    <3>4. \A t \in Sessions \ {s} : Spared(t)
      BY <2>1, <2>2, <2>3, <3>1, AuthenticateSpares
    <3> QED
      BY <2>1, <3>3, <3>4, OneSession, StoredUnchanged
  <2>4. CASE Wrong(s) /\ UNCHANGED proof
    <3>1. Sound(s)'
      BY <2>1, <2>2, <2>4, WrongSound
    <3>2. \A t \in Sessions \ {s} : Spared(t)
      BY <2>1, <2>2, <2>4, WrongSpares
    <3> QED
      BY <2>1, <3>1, <3>2, OneSession, StoredUnchanged
  <2> QED
    BY <2>3, <2>4
<1>3. ASSUME NEW s \in Sessions, NEW old \in Passwords, NEW p \in Passwords,
             ChangePassword(s, old, p)
      PROVE  AllSound'
  <2> PICK x \in sessions[s].account :
        IF old = x.hash THEN Save(s, p, TRUE, {old}) /\ UNCHANGED dismissed
                        ELSE Wrong(s) /\ UNCHANGED saves
    BY <1>3 DEF ChangePassword
  <2>1. /\ Sound(s) /\ Ready(s) /\ s \in DOMAIN sessions
        /\ UNCHANGED <<reads, link, timers, stored, proof, since, calls, answers>>
    BY <1>3 DEF AllSound, ChangePassword, Ready
  <2>2. CASE Save(s, p, TRUE, {old}) /\ old = x.hash /\ UNCHANGED dismissed
    <3>1. \A y \in sessions[s].account : y.hash \in {old}
      BY <2>1, <2>2, KnownVersionType
    <3>2. {old} \in SUBSET Passwords
      OBVIOUS
    <3>3. Sound(s)'
      BY <2>1, <2>2, <3>1, <3>2, SaveSound
    <3>4. \A t \in Sessions \ {s} : Spared(t)
      BY <2>1, <2>2, SaveSpares
    <3> QED
      BY <2>1, <3>3, <3>4, OneSession, StoredUnchanged
  <2>3. CASE Wrong(s) /\ UNCHANGED saves
    <3>1. Sound(s)'
      BY <2>1, <2>3, WrongSound
    <3>2. \A t \in Sessions \ {s} : Spared(t)
      BY <2>1, <2>3, WrongSpares
    <3> QED
      BY <2>1, <3>1, <3>2, OneSession, StoredUnchanged
  <2> QED
    BY <2>2, <2>3
<1>4. ASSUME NEW s \in Sessions, Unknown(s)
      PROVE  AllSound'
  <2>1. /\ Sound(s) /\ link[s] # "new" /\ s \notin DOMAIN sessions
        /\ Send({Disconnect(s)})
        /\ UNCHANGED <<plugin, link, timers, stored, history, calls, answers>>
    BY <1>4 DEF AllSound, Unknown, Connected
  <2>2. /\ Unlock(s) \in outbox' <=> Unlock(s) \in outbox
        /\ \A m \in outbox' : Concerns(m, s) \/ (m.session = s /\ m.type = "cas")
              => m \in outbox
    BY <2>1, SignalSessions DEF Send, Concerns
  <2>3. Sound(s)'
    <3> USE <2>1, <2>2 DEF plugin, history, Sound, Version
    <3>1. Untouched(s)' /\ Dismissed(s)'
      BY DEF Untouched, Dismissed
    <3>2. OneRequest(s)'
      BY DEF OneRequest, Send, Concerns
    <3>3. Waiting(s)'
      BY DEF Waiting
    <3>4. Informed(s)'
      BY DEF Informed, Known
    <3>5. Checked(s)'
      BY DEF Checked
    <3>6. Unlocked(s)'
      BY DEF Unlocked, Earned, Unlock
    <3> QED
      BY <3>1, <3>2, <3>3, <3>4, <3>5, <3>6
  <2>4. \A m \in {Disconnect(s)} : m.session = s
    BY SignalSessions
  <2>5. \A t \in Sessions \ {s} : Spared(t)
    BY <2>1, <2>4, OthersSpared DEF plugin, history
  <2> QED
    BY <2>1, <2>3, <2>5, OneSession, StoredUnchanged
<1> QED
  BY <1>1, <1>2, <1>3, <1>4 DEF Command

-----------------------------------------------------------------------------
(* Answers *)

(* Once its answer is taken, nothing is under way for a session. *)
LEMMA AnsweredIsIdle ==
  ASSUME NEW s \in Sessions, Sound(s), NEW m \in answers, Concerns(m, s),
         answers' = answers \ {m}, UNCHANGED calls,
         NEW commands, \A c \in commands : ~ Concerns(c, s),
         Send(commands) \/ UNCHANGED outbox
  PROVE  Idle(s)'
BY DEF Idle, Sound, OneRequest, Send

LEMMA ReadSound ==
  ASSUME TypeOK, TypeOK', AllSound, NEW m \in answers, NEW s \in Sessions, m.session = s,
         answers' = answers \ {m}, AccountRead(s, m),
         UNCHANGED <<link, timers, stored, proof, since, calls>>
  PROVE  AllSound'
<1>1. /\ Sound(s) /\ s \in DOMAIN sessions /\ s \notin DOMAIN saves
      /\ s \notin dismissed /\ Concerns(m, s) /\ link'[s] # "new"
  BY DEF AllSound, Sound, Waiting, Dismissed, Silenced, AccountRead, Concerns, Untouched
<1>2. /\ reads' = reads \ {s} /\ UNCHANGED <<saves, dismissed>>
      /\ UNCHANGED outbox \/ Send({Disconnect(s)})
  BY DEF AccountRead
<1>3. /\ \A c \in {Disconnect(s)} : ~ Concerns(c, s) /\ c.session = s
      /\ Unlock(s) \in outbox' <=> Unlock(s) \in outbox
  BY <1>2, SignalSessions DEF Concerns, Send
<1>4. Idle(s)'
  BY <1>1, <1>2, <1>3, AnsweredIsIdle
<1>5. /\ s \in DOMAIN sessions'
      /\ sessions'[s].account \in {sessions[s].account, m.account}
      /\ sessions'[s].authenticated = sessions[s].authenticated
      /\ \A t \in Sessions \ {s} : /\ t \in DOMAIN sessions' <=> t \in DOMAIN sessions
                                   /\ t \in DOMAIN sessions => sessions'[t] = sessions[t]
  <2> DEFINE r == [sessions[s] EXCEPT !.account = m.account, !.loaded = TRUE,
                                      !.busy = FALSE]
  <2>1. r.account = m.account /\ r.authenticated = sessions[s].authenticated
    BY <1>1 DEF TypeOK, SessionRecords
  <2>2. sessions' = [sessions EXCEPT ![s] = r] \/ UNCHANGED sessions
    BY DEF AccountRead
  <2> HIDE DEF r
  <2> QED
    BY <1>1, <2>1, <2>2
<1>6. /\ since'[s] <= Version(AccountOf[s])'
      /\ \A x \in sessions'[s].account : Known(s, x)'
      /\ sessions[s].account # {} => sessions'[s].account # {}
  BY <1>1, <1>5 DEF Known, Version, Sound, Informed, AccountRead
<1>7. Unlocked(s)'
  BY <1>1, <1>3, <1>5, <1>6 DEF Unlocked, Sound, Earned, Version, Unlock
<1>8. Sound(s)'
  BY <1>1, <1>2, <1>4, <1>6, <1>7, IdleIsSound
<1>9. \A c \in {Disconnect(s)} : c.session = s
  BY SignalSessions
<1>10. \A t \in Sessions \ {s} : Spared(t)
  <2>1. \A t \in Sessions \ {s} :
          /\ t \in reads' <=> t \in reads
          /\ t \in DOMAIN saves' <=> t \in DOMAIN saves
          /\ t \in DOMAIN saves => saves'[t] = saves[t]
          /\ link'[t] = link[t] /\ proof'[t] = proof[t] /\ since'[t] = since[t]
          /\ t \in dismissed' <=> t \in dismissed
    BY <1>2
  <2> QED
    BY <1>2, <1>5, <1>9, <2>1, OthersSpared
<1> QED
  BY <1>8, <1>10, OneSession, StoredUnchanged

LEMMA SavedSound ==
  ASSUME TypeOK, TypeOK', AllSound, NEW m \in answers, NEW s \in Sessions, m.session = s,
         answers' = answers \ {m}, AccountSaved(s, m),
         UNCHANGED <<link, timers, stored, proof, since, calls>>
  PROVE  AllSound'
<1>1. /\ Sound(s) /\ s \in DOMAIN sessions /\ s \in DOMAIN saves /\ s \notin reads
      /\ sessions[s] \in SessionRecords /\ sessions[s].busy /\ sessions[s].loaded
      /\ s \notin dismissed /\ Concerns(m, s) /\ link'[s] # "new" /\ m.type = "cas"
  BY DEF AllSound, Sound, Waiting, Dismissed, Silenced, AccountSaved, Concerns,
         Untouched, TypeOK
<1>2. /\ s \notin DOMAIN saves'
      /\ \A t \in Sessions \ {s} : /\ t \in DOMAIN saves' <=> t \in DOMAIN saves
                                   /\ t \in DOMAIN saves => saves'[t] = saves[t]
  BY DEF AccountSaved
<1>3. since'[s] <= Version(AccountOf[s])'
  BY <1>1 DEF Sound, Informed, Version
<1>4. \A x \in sessions[s].account : Known(s, x)'
  BY <1>1 DEF Sound, Informed, Known, Version
<1>5. CASE m.outcome = "committed" /\ SaveCommitted(s, saves[s], m.version)
  <2> PICK x : x = [hash |-> saves[s].hash, version |-> m.version]
    OBVIOUS
  <2>1. Known(s, x) /\ (saves[s].change \/ x.hash \in proof[s])
    BY <1>1, <1>5 DEF Sound, Informed, Waiting
  <2>2. CASE /\ sessions' = [sessions EXCEPT ![s] =
                               [@ EXCEPT !.account = {x}, !.busy = FALSE, !.failures = 0]]
             /\ UNCHANGED <<outbox, dismissed, reads>>
    <3>1. /\ s \in DOMAIN sessions' /\ sessions'[s].account = {x}
          /\ sessions'[s].authenticated = sessions[s].authenticated
          /\ \A t \in Sessions \ {s} : /\ t \in DOMAIN sessions' <=> t \in DOMAIN sessions
                                       /\ t \in DOMAIN sessions => sessions'[t] = sessions[t]
      BY <1>1, <2>2 DEF TypeOK, SessionRecords
    <3>2. Known(s, x)'
      BY <2>1 DEF Known, Version
    <3>3. Idle(s)'
      BY <1>1, <2>2 DEF Idle, Sound, OneRequest
    <3>4. Unlocked(s)'
      BY <1>1, <2>2, <3>1 DEF Unlocked, Sound, Earned, Version, Unlock
    <3>5. Sound(s)'
      BY <1>1, <1>2, <1>3, <2>2, <3>1, <3>2, <3>3, <3>4, IdleIsSound
    <3>6. \A t \in Sessions \ {s} : Spared(t)
      BY <1>1, <1>2, <2>2, <3>1 DEF Spared
    <3> QED
      BY <3>5, <3>6, OneSession, StoredUnchanged
  <2>3. CASE Authenticate(s, {x}) /\ ~ saves[s].change /\ UNCHANGED reads
    <3>1. Earned(s)'
      BY <2>1, <2>3 DEF Earned, Known, Version
    <3>2. \A c \in {Unlock(s), CancelTimer(s)} : ~ Concerns(c, s)
      BY SignalSessions DEF Concerns
    <3>3. Idle(s)'
      BY <1>1, <2>3, <3>2, AnsweredIsIdle DEF Authenticate
    <3>4. Sound(s)'
      BY <1>1, <1>2, <2>1, <2>3, <3>1, <3>3, AuthenticateSound
    <3>5. \A t \in Sessions \ {s} : Spared(t)
      BY <1>1, <1>2, <2>3, AuthenticateSpares
    <3> QED
      BY <3>4, <3>5, OneSession, StoredUnchanged
  <2> QED
    BY <1>5, <2>2, <2>3 DEF SaveCommitted
<1>6. CASE SaveRefused(s)
  <2>1. /\ s \in DOMAIN sessions' /\ sessions'[s].account = sessions[s].account
        /\ sessions'[s].authenticated = sessions[s].authenticated
        /\ ~ sessions'[s].loaded /\ sessions'[s].busy
        /\ \A t \in Sessions \ {s} : /\ t \in DOMAIN sessions' <=> t \in DOMAIN sessions
                                     /\ t \in DOMAIN sessions => sessions'[t] = sessions[t]
    BY <1>1, <1>6 DEF SaveRefused, TypeOK, SessionRecords
  <2>2. /\ reads' = reads \cup {s} /\ outbox' = outbox \cup {Get(s)}
        /\ UNCHANGED dismissed
    BY <1>6 DEF SaveRefused, Send
  <2>3. Concerns(Get(s), s) /\ Get(s).type = "get" /\ Get(s).session = s
    BY SignalSessions DEF Concerns
  <2>4. \A n \in outbox \cup calls \cup (answers \ {m}) : ~ Concerns(n, s)
    BY <1>1 DEF Sound, OneRequest
  <2>5. /\ \A n \in outbox' : Concerns(n, s) => n = Get(s)
        /\ \A n \in calls' \cup answers' : ~ Concerns(n, s)
    BY <2>2, <2>4
  <2>6. OneRequest(s)'
    BY <2>5 DEF OneRequest
  <2>7. Waiting(s)'
    BY <1>2, <2>1, <2>2, <2>3, <2>5 DEF Waiting, Awaited
  <2>8. Informed(s)'
    BY <1>2, <1>3, <1>4, <2>1, <2>5 DEF Informed, Concerns
  <2>9. Checked(s)'
    BY <1>2, <2>3, <2>5 DEF Checked, Concerns
  <2>10. Unlocked(s)'
    <3>1. Unlock(s) \in outbox' <=> Unlock(s) \in outbox
      BY <2>2, SignalSessions
    <3> QED
      BY <1>1, <2>1, <3>1 DEF Unlocked, Sound, Earned, Version, Unlock
  <2>11. Sound(s)'
    BY <1>1, <2>2, <2>6, <2>7, <2>8, <2>9, <2>10 DEF Sound, Untouched, Dismissed
  <2>12. \A c \in {Get(s)} : c.session = s
    BY SignalSessions
  <2>13. \A t \in Sessions \ {s} : Spared(t)
    <3>1. Send({Get(s)})
      BY <2>2 DEF Send
    <3> QED
      BY <1>1, <1>2, <2>1, <2>2, <2>12, <3>1, OthersSpared
  <2> QED
    BY <2>11, <2>13, OneSession, StoredUnchanged
<1>7. CASE SaveFailed(s)
  <2>1. Send({Disconnect(s)}) /\ UNCHANGED <<sessions, reads, dismissed>>
    BY <1>7 DEF SaveFailed
  <2>2. /\ \A c \in {Disconnect(s)} : ~ Concerns(c, s) /\ c.session = s
        /\ Unlock(s) \in outbox' <=> Unlock(s) \in outbox
    BY <2>1, SignalSessions DEF Concerns, Send
  <2>3. Idle(s)'
    BY <1>1, <2>1, <2>2, AnsweredIsIdle
  <2>4. Unlocked(s)'
    BY <1>1, <2>1, <2>2 DEF Unlocked, Sound, Earned, Version, Unlock
  <2>5. Sound(s)'
    BY <1>1, <1>2, <1>3, <1>4, <2>1, <2>3, <2>4, IdleIsSound
  <2>6. \A t \in Sessions \ {s} : Spared(t)
    BY <1>1, <1>2, <2>1, <2>2, OthersSpared
  <2> QED
    BY <2>5, <2>6, OneSession, StoredUnchanged
<1>8. m.outcome \in {"committed", "refused", "failed"}
  BY <1>1 DEF TypeOK, Answers
<1> QED
  BY <1>5, <1>6, <1>7, <1>8 DEF AccountSaved

(* An answer nobody awaits. *)
LEMMA IgnoredSound ==
  ASSUME TypeOK, AllSound, NEW m \in answers, answers' = answers \ {m},
         UNCHANGED <<plugin, dismissed, outbox, link, timers, stored, proof, since, calls>>
  PROVE  AllSound'
<1> SUFFICES ASSUME NEW t \in Sessions PROVE Sound(t)'
  BY DEF AllSound
<1> USE DEF plugin
<1>1. Sound(t) /\ answers' \subseteq answers
  BY DEF AllSound
<1>2. Untouched(t)' /\ OneRequest(t)'
  BY <1>1 DEF Sound, Untouched, OneRequest, Concerns
<1>3. Waiting(t)'
  BY <1>1 DEF Sound, Waiting, Concerns, Awaited, Silenced
<1>4. Informed(t)'
  BY <1>1 DEF Sound, Informed, Known, Version
<1>5. Checked(t)' /\ Unlocked(t)' /\ Dismissed(t)'
  BY <1>1 DEF Sound, Checked, Unlocked, Dismissed, Earned, Version, Silenced, Unlock
<1> QED
  BY <1>2, <1>3, <1>4, <1>5 DEF Sound

LEMMA DeliverSound ==
  ASSUME TypeOK, TypeOK', AllSound, Deliver
  PROVE  AllSound'
<1> PICK m \in answers :
      /\ answers' = answers \ {m}
      /\ \/ AccountRead(m.session, m)
         \/ AccountSaved(m.session, m)
         \/ Ignored(m.session, m)
      /\ UNCHANGED <<link, timers, stored, proof, since, calls>>
  BY DEF Deliver
<1>1. m.session \in Sessions
  BY DEF TypeOK, Answers
<1>2. CASE AccountRead(m.session, m)
  BY <1>1, <1>2, ReadSound
<1>3. CASE AccountSaved(m.session, m)
  BY <1>1, <1>3, SavedSound
<1>4. CASE Ignored(m.session, m)
  BY <1>4, IgnoredSound DEF Ignored
<1> QED
  BY <1>2, <1>3, <1>4

-----------------------------------------------------------------------------
(* The host *)

LEMMA AcceptSound ==
  ASSUME TypeOK, TypeOK', AllSound, AcceptBatch
  PROVE  AllSound'
<1> SUFFICES ASSUME NEW t \in Sessions PROVE Sound(t)'
  BY DEF AllSound
<1>1. /\ outbox' = {} /\ calls' = calls \cup {c \in outbox : c.type \in {"get", "cas"}}
      /\ UNCHANGED <<sessions, reads, saves, stored, proof, since, dismissed, answers>>
      /\ Sound(t)
  BY DEF AcceptBatch, plugin, history, AllSound
<1>2. link'[t] = "new" => link[t] = "new"
  BY DEF AcceptBatch, TypeOK
<1>3. link'[t] = "open" => link[t] = "open" \/ Unlock(t) \in outbox
  <2>1. ASSUME NEW c \in outbox, c.type = "unlock", c.session = t PROVE c = Unlock(t)
    BY <2>1 DEF TypeOK, Signals, Gets, Writes, Unlock
  <2> QED
    BY <2>1 DEF AcceptBatch, TypeOK
<1>4. Untouched(t)'
  BY <1>1, <1>2 DEF Sound, Untouched
<1>5. OneRequest(t)'
  BY <1>1 DEF Sound, OneRequest, Concerns
<1>6. Waiting(t)' /\ Checked(t)' /\ Dismissed(t)'
  BY <1>1 DEF Sound, Waiting, Checked, Dismissed, Concerns, Awaited, Silenced, Version
<1>7. Informed(t)'
  BY <1>1 DEF Sound, Informed, Known, Version
<1>8. Unlocked(t)'
  BY <1>1, <1>3 DEF Sound, Unlocked, Earned, Version
<1> QED
  BY <1>4, <1>5, <1>6, <1>7, <1>8 DEF Sound

(* Executing a call of s leaves its answer.                                *)
LEMMA ExecutedSound ==
  ASSUME TypeOK, TypeOK', AllSound, Grows, NEW call \in calls, NEW s \in Sessions,
         call.session = s, NEW answer,
         answer.session = s, answer.type = call.type, call.type \in {"get", "cas"},
         calls' = calls \ {call}, answers' = answers \cup {answer},
         UNCHANGED <<plugin, link, timers, history, outbox>>,
         answer.type = "get" =>
            /\ \A x \in answer.account : Known(s, x)'
            /\ s \in DOMAIN sessions /\ sessions[s].account # {} => answer.account # {},
         answer.type = "cas" /\ answer.outcome = "committed" /\ s \in DOMAIN saves =>
            answer.version > 0 /\ Known(s, [hash |-> saves[s].hash, version |-> answer.version])'
  PROVE  AllSound'
<1> USE DEF plugin, history
<1>1. \A t \in Sessions \ {s} : Spared(t)
  BY DEF Spared
<1>2. /\ Concerns(call, s) /\ Concerns(answer, s) /\ Sound(s)
      /\ Awaited(call, s) => Awaited(answer, s)'
  BY DEF Concerns, AllSound, Awaited, Silenced
<1>3. \A n \in outbox \cup calls' \cup answers : ~ Concerns(n, s)
  BY <1>2 DEF Sound, OneRequest
<1>4. Untouched(s)' /\ Dismissed(s)'
  BY <1>2 DEF Sound, Untouched, Dismissed, Silenced
<1>5. OneRequest(s)'
  BY <1>3 DEF OneRequest
<1>6. Waiting(s)'
  BY <1>2, <1>3 DEF Sound, Waiting
<1>7. Informed(s)'
  <2>1. since[s] <= Version(AccountOf[s])'
    BY <1>2, StoredStays DEF Sound, Informed, TypeOK
  <2>2. s \in DOMAIN sessions => \A x \in sessions[s].account : Known(s, x)'
    BY <1>2, StoredStays, AccountVersions DEF Sound, Informed
  <2>3. \A m \in answers' : m.session = s /\ m.type \in {"get", "cas"} => m = answer
    BY <1>3 DEF Concerns
  <2>4. s \in reads => s \in DOMAIN sessions
    BY <1>2 DEF Sound, Waiting
  <2> QED
    BY <2>1, <2>2, <2>3, <2>4 DEF Informed
<1>8. Checked(s)'
  BY <1>3 DEF Checked, Concerns
<1>9. Unlocked(s)'
  BY <1>2, StoredStays DEF Sound, Unlocked, Unlock
<1> QED
  BY <1>1, <1>4, <1>5, <1>6, <1>7, <1>8, <1>9, OneSession DEF Sound

LEMMA ExecuteSound ==
  ASSUME TypeOK, TypeOK', AllSound, Execute
  PROVE  AllSound'
<1> PICK call \in calls :
      /\ calls' = calls \ {call}
      /\ ExecuteGet(call) \/ ExecuteCas(call)
      /\ UNCHANGED <<plugin, link, timers, history, outbox>>
  BY DEF Execute
<1> PICK s : s = call.session
  OBVIOUS
<1> PICK a : a = AccountOf[s]
  OBVIOUS
<1>1. s \in Sessions /\ Sound(s) /\ a \in Accounts /\ stored[a] \in Seq(Values)
      /\ Version(a) \in Nat
  BY VersionType, SessionsAssumption DEF TypeOK, Gets, Writes, AllSound
<1>2. CASE ExecuteGet(call)
  <2> PICK outcome \in ReadOutcomes :
        answers' = answers \cup {[type |-> "get", session |-> s, outcome |-> outcome,
                                  account |-> Found(a, Version(a))]}
    BY <1>2 DEF ExecuteGet
  <2> PICK answer : answer = [type |-> "get", session |-> s, outcome |-> outcome,
                              account |-> Found(a, Version(a))]
    OBVIOUS
  <2>1. UNCHANGED stored /\ call.type = "get" /\ UNCHANGED since
    BY <1>2 DEF ExecuteGet, history
  <2>2. \A x \in answer.account : Known(s, x)'
    BY <1>1, <2>1 DEF Found, Known, Version, Sound, Informed
  <2>3. s \in DOMAIN sessions /\ sessions[s].account # {} => answer.account # {}
    <3>1. ASSUME s \in DOMAIN sessions, NEW x \in sessions[s].account
          PROVE  Version(a) # 0
      BY <1>1, <3>1 DEF Sound, Informed, Known
    <3> QED
      BY <3>1 DEF Found
  <2> QED
    BY <1>1, <2>1, <2>2, <2>3, ExecutedSound, StoredUnchanged
<1>3. CASE ExecuteCas(call)
  <2> DEFINE record == [version |-> Version(a), value |-> stored[a]]
             longer == Append(stored[a], call.value)
  <2> PICK x \in CasExecutions(record, call.expected, longer) :
        /\ stored' = [stored EXCEPT ![a] = x.record.value]
        /\ answers' = answers \cup {[type |-> "cas", session |-> s,
                                     outcome |-> x.outcome, version |-> x.record.version]}
    BY <1>3 DEF ExecuteCas
  <2> PICK answer : answer = [type |-> "cas", session |-> s,
                              outcome |-> x.outcome, version |-> x.record.version]
    OBVIOUS
  <2>1. \/ x.record.value = stored[a] /\ x.outcome # "committed"
        \/ x.record.value = longer /\ x.record.version = Version(a) + 1
    <3> HIDE DEF longer
    <3>1. record.value = stored[a] /\ record.version = Version(a)
      OBVIOUS
    <3> HIDE DEF record
    <3> QED
      BY <3>1, WriteOutcomes
  <2>2. /\ call.type = "cas" /\ call.session = s /\ call.value \in Values
        /\ UNCHANGED since
    BY <1>3 DEF ExecuteCas, TypeOK, Gets, Writes, Values, history
  <2>3. /\ Len(longer) = Len(stored[a]) + 1
        /\ longer[Len(stored[a]) + 1] = call.value
        /\ \A v \in 1 .. Len(stored[a]) : longer[v] = stored[a][v]
    BY <1>1, <2>2
  <2> HIDE DEF longer
  <2>4. Grows
    BY <1>1, <2>1, <2>3 DEF Grows, TypeOK
  <2>5. ASSUME answer.outcome = "committed", s \in DOMAIN saves
        PROVE  /\ answer.version > 0
               /\ Known(s, [hash |-> saves[s].hash, version |-> answer.version])'
    <3>1. stored'[a] = longer /\ answer.version = Version(a) + 1
      BY <1>1, <2>1, <2>5 DEF TypeOK
    <3>2. call.value = saves[s].hash /\ since[s] <= Version(a) /\ since[s] \in Nat
      BY <1>1, <2>2, <2>5 DEF Sound, Checked, Informed, TypeOK
    <3>3. UNCHANGED saves
      BY DEF plugin
    <3> QED
      BY <1>1, <2>2, <2>3, <3>1, <3>2, <3>3 DEF Known, Version
  <2> QED
    BY <1>1, <2>2, <2>4, <2>5, ExecutedSound
<1> QED
  BY <1>2, <1>3

-----------------------------------------------------------------------------
(* Joining, leaving and the timer *)

LEMMA JoinedSound ==
  ASSUME TypeOK, TypeOK', AllSound, NEW s \in Sessions, Joined(s)
  PROVE  AllSound'
<1>1. /\ link[s] = "new" /\ link' = [link EXCEPT ![s] = "locked"]
      /\ since' = [since EXCEPT ![s] = Version(AccountOf[s])]
      /\ sessions' = [t \in DOMAIN sessions \cup {s} |->
                        IF t = s THEN NewSession ELSE sessions[t]]
      /\ reads' = reads \cup {s}
      /\ Send({ScheduleTimer(s), Get(s)})
      /\ UNCHANGED <<saves, timers, stored, proof, dismissed, calls, answers>>
      /\ Sound(s)
  BY DEF Joined, AllSound
<1>2. /\ s \notin DOMAIN sessions /\ s \notin dismissed /\ s \notin DOMAIN saves
      /\ \A m \in outbox \cup calls \cup answers : m.session # s
  BY <1>1 DEF Sound, Untouched, Waiting
<1>3. /\ link'[s] = "locked" /\ s \in DOMAIN sessions'
      /\ sessions'[s].account = {} /\ ~ sessions'[s].authenticated
      /\ ~ sessions'[s].loaded /\ since'[s] = Version(AccountOf[s])'
  BY <1>1 DEF NewSession, TypeOK, Version
<1>4. /\ \A m \in outbox' : Concerns(m, s) => m = Get(s)
      /\ \A m \in outbox' : m.session = s => m.type # "cas" /\ m # Unlock(s)
      /\ \A m \in calls' \cup answers' : m.session # s
  BY <1>1, <1>2, SignalSessions DEF Send, Concerns
<1>5. Version(AccountOf[s])' \in Nat
  BY StoredStays, StoredUnchanged, SessionsAssumption DEF TypeOK, Version
<1>6. Unlocked(s)'
  BY <1>3, <1>4, UnlockSession DEF Unlocked, Unlock
<1>7. OneRequest(s)'
  BY <1>4 DEF OneRequest, Concerns
<1>8. Waiting(s)'
  BY <1>1, <1>2, <1>3, <1>4, SignalSessions DEF Waiting, Awaited, Concerns
<1>9. Informed(s)' /\ Checked(s)'
  BY <1>3, <1>4, <1>5 DEF Informed, Checked
<1>10. Sound(s)'
  BY <1>1, <1>2, <1>3, <1>6, <1>7, <1>8, <1>9 DEF Sound, Untouched, Dismissed
<1>11. \A c \in {ScheduleTimer(s), Get(s)} : c.session = s
  BY SignalSessions
<1>12. \A t \in Sessions \ {s} :
          /\ t \in DOMAIN sessions' <=> t \in DOMAIN sessions
          /\ t \in DOMAIN sessions => sessions'[t] = sessions[t]
          /\ t \in reads' <=> t \in reads
          /\ link'[t] = link[t] /\ since'[t] = since[t]
  BY <1>1 DEF TypeOK
<1>13. \A t \in Sessions \ {s} : Spared(t)
  BY <1>1, <1>11, <1>12, OthersSpared
<1> QED
  BY <1>1, <1>10, <1>13, OneSession, StoredUnchanged

LEMMA LeftSound ==
  ASSUME TypeOK, TypeOK', AllSound, NEW s \in Sessions, Left(s)
  PROVE  AllSound'
<1>1. /\ link' = [link EXCEPT ![s] = "gone"]
      /\ sessions' = [t \in DOMAIN sessions \ {s} |-> sessions[t]]
      /\ reads' = reads \ {s}
      /\ saves' = [t \in DOMAIN saves \ {s} |-> saves[t]]
      /\ Send({CancelTimer(s)})
      /\ UNCHANGED <<timers, stored, proof, since, dismissed, calls, answers>>
      /\ Sound(s)
  BY DEF Left, AllSound, history
<1>2. /\ link'[s] = "gone" /\ s \notin DOMAIN sessions' /\ s \notin reads'
      /\ s \notin DOMAIN saves'
  BY <1>1 DEF TypeOK
<1>3. \A m \in outbox' : Concerns(m, s) \/ m.type = "cas" \/ m = Unlock(s) => m \in outbox
  BY <1>1, SignalSessions DEF Send, Concerns
<1>4. Untouched(s)' /\ Waiting(s)' /\ Dismissed(s)'
  BY <1>2 DEF Untouched, Waiting, Dismissed
<1>5. OneRequest(s)'
  BY <1>1, <1>3 DEF Sound, OneRequest, Concerns
<1>6. Informed(s)'
  BY <1>1, <1>2 DEF Sound, Informed, Known, Version
<1>7. Checked(s)'
  BY <1>1, <1>2, <1>3 DEF Sound, Checked, Version
<1>8. Unlocked(s)'
  BY <1>1, <1>2, <1>3 DEF Sound, Unlocked, Earned, Version, Unlock
<1>9. \A c \in {CancelTimer(s)} : c.session = s
  BY SignalSessions
<1>10. \A t \in Sessions \ {s} :
          /\ t \in DOMAIN sessions' <=> t \in DOMAIN sessions
          /\ t \in DOMAIN sessions => sessions'[t] = sessions[t]
          /\ t \in reads' <=> t \in reads
          /\ t \in DOMAIN saves' <=> t \in DOMAIN saves
          /\ t \in DOMAIN saves => saves'[t] = saves[t]
          /\ link'[t] = link[t]
  BY <1>1 DEF TypeOK
<1>11. \A t \in Sessions \ {s} : Spared(t)
  BY <1>1, <1>9, <1>10, OthersSpared
<1>12. Sound(s)'
  BY <1>4, <1>5, <1>6, <1>7, <1>8 DEF Sound
<1> QED
  BY <1>1, <1>11, <1>12, OneSession, StoredUnchanged

LEMMA TimerSound ==
  ASSUME TypeOK, TypeOK', AllSound, NEW s \in Sessions, TimerFired(s)
  PROVE  AllSound'
<1>1. CASE s \in DOMAIN sessions /\ ~ sessions[s].authenticated
  <2>1. /\ reads' = reads \ {s}
        /\ saves' = [t \in DOMAIN saves \ {s} |-> saves[t]]
        /\ sessions' = [sessions EXCEPT ![s].busy = TRUE]
        /\ Send({Disconnect(s)})
        /\ dismissed' = dismissed \cup {s}
        /\ UNCHANGED <<link, stored, proof, since, calls, answers>>
        /\ Sound(s)
    BY <1>1 DEF TimerFired, AllSound
  <2>2. /\ s \in DOMAIN sessions' /\ sessions'[s].busy
        /\ sessions'[s].account = sessions[s].account
        /\ ~ sessions'[s].authenticated
        /\ s \notin reads' /\ s \notin DOMAIN saves' /\ link[s] # "new"
    BY <1>1, <2>1 DEF TypeOK, SessionRecords, Sound, Untouched
  <2>3. /\ \A m \in outbox' : Concerns(m, s) \/ m.type = "cas" => m \in outbox
        /\ Unlock(s) \in outbox' => Unlock(s) \in outbox
    BY <2>1, SignalSessions DEF Send, Concerns
  <2>4. Untouched(s)' /\ Waiting(s)' /\ Dismissed(s)'
    BY <2>1, <2>2 DEF Untouched, Waiting, Dismissed, Awaited, Silenced
  <2>5. OneRequest(s)'
    BY <2>1, <2>3 DEF Sound, OneRequest, Concerns
  <2>6. Informed(s)'
    BY <2>1, <2>2 DEF Sound, Informed, Known, Version
  <2>7. Checked(s)'
    BY <2>1, <2>2, <2>3 DEF Sound, Checked, Version
  <2>8. Unlocked(s)'
    BY <2>1, <2>2, <2>3 DEF Sound, Unlocked, Earned, Version, Unlock
  <2>9. \A c \in {Disconnect(s)} : c.session = s
    BY SignalSessions
  <2>10. \A t \in Sessions \ {s} :
            /\ t \in DOMAIN sessions' <=> t \in DOMAIN sessions
            /\ t \in DOMAIN sessions => sessions'[t] = sessions[t]
            /\ t \in reads' <=> t \in reads
            /\ t \in DOMAIN saves' <=> t \in DOMAIN saves
            /\ t \in DOMAIN saves => saves'[t] = saves[t]
            /\ t \in dismissed' <=> t \in dismissed
    BY <2>1 DEF TypeOK
  <2>11. \A t \in Sessions \ {s} : Spared(t)
    BY <2>1, <2>9, <2>10, OthersSpared
  <2>12. Sound(s)'
    BY <2>4, <2>5, <2>6, <2>7, <2>8 DEF Sound
  <2> QED
    BY <2>1, <2>11, <2>12, OneSession, StoredUnchanged
<1>2. CASE ~ (s \in DOMAIN sessions /\ ~ sessions[s].authenticated)
  <2>1. UNCHANGED <<plugin, dismissed, outbox, link, stored, proof, since, calls, answers>>
    BY <1>2 DEF TimerFired
  <2>2. \A t \in Sessions : Spared(t)
    BY <2>1 DEF Spared, plugin
  <2> QED
    BY <2>1, <2>2, Elsewhere, StoredUnchanged DEF AllSound
<1> QED
  BY <1>1, <1>2

(* The connection of a session that has joined ends. *)
LEMMA QuitSound ==
  ASSUME TypeOK, TypeOK', AllSound, NEW s \in Sessions, Quit(s)
  PROVE  AllSound'
<1>1. /\ link' = [link EXCEPT ![s] = "closed"]
      /\ UNCHANGED <<sessions, reads, saves, timers, stored, proof, since, dismissed,
                     outbox, calls, answers>>
      /\ Sound(s)
  BY DEF Quit, AllSound, plugin, history
<1>2. link'[s] = "closed" /\ \A t \in Sessions \ {s} : link'[t] = link[t]
  BY <1>1 DEF TypeOK
<1>3. \A t \in Sessions \ {s} : Spared(t)
  BY <1>1, <1>2 DEF Spared
<1>4. Untouched(s)' /\ OneRequest(s)' /\ Waiting(s)' /\ Dismissed(s)'
  BY <1>1, <1>2 DEF Sound, Untouched, OneRequest, Waiting, Dismissed, Concerns,
                    Awaited, Silenced
<1>5. Informed(s)' /\ Checked(s)'
  BY <1>1 DEF Sound, Informed, Checked, Known, Version
<1>6. Unlocked(s)'
  BY <1>1, <1>2 DEF Sound, Unlocked, Earned, Version, Unlock
<1> QED
  BY <1>1, <1>3, <1>4, <1>5, <1>6, OneSession, StoredUnchanged DEF Sound

LEMMA RestartSound ==
  ASSUME TypeOK, AllSound, Restart
  PROVE  AllSound'
<1> SUFFICES ASSUME NEW t \in Sessions PROVE Sound(t)'
  BY DEF AllSound
<1>1. /\ sessions' = <<>> /\ reads' = {} /\ saves' = <<>>
      /\ outbox' = {} /\ calls' = {} /\ answers' = {}
      /\ UNCHANGED <<link, stored, proof, since, dismissed>>
      /\ Sound(t)
  BY DEF Restart, AllSound, history
<1>2. t \notin DOMAIN sessions' /\ t \notin DOMAIN saves'
  BY <1>1
<1>3. Untouched(t)'
  BY <1>1, <1>2 DEF Sound, Untouched
<1>4. OneRequest(t)' /\ Waiting(t)' /\ Dismissed(t)' /\ Checked(t)'
  BY <1>1, <1>2 DEF OneRequest, Waiting, Dismissed, Checked
<1>5. Informed(t)'
  BY <1>1, <1>2 DEF Sound, Informed, Version
<1>6. Unlocked(t)'
  BY <1>1, <1>2 DEF Sound, Unlocked, Earned, Version
<1> QED
  BY <1>3, <1>4, <1>5, <1>6 DEF Sound

LEMMA InitSound == Init => AllSound
<1> SUFFICES ASSUME Init, NEW t \in Sessions PROVE Sound(t)
  BY DEF AllSound
<1>1. TypeOK
  BY InitType
<1>2. /\ t \notin DOMAIN sessions /\ t \notin DOMAIN saves /\ since[t] = 0
      /\ link[t] = "new" /\ reads = {} /\ dismissed = {}
      /\ outbox = {} /\ calls = {} /\ answers = {}
  BY DEF Init
<1>3. Version(AccountOf[t]) \in Nat
  BY <1>1, VersionType, SessionsAssumption
<1> QED
  BY <1>2, <1>3 DEF Sound, Untouched, OneRequest, Waiting, Informed, Checked, Unlocked,
                    Dismissed

-----------------------------------------------------------------------------
(* Theorems *)

(***************************************************************************)
(* Every session stays sound: at most one storage request of it is under   *)
(* way, that one is awaited unless the session waits for nothing any more, *)
(* and everything the session knows or is about to learn was stored.       *)
(***************************************************************************)
THEOREM AlwaysSound == Spec => [](TypeOK /\ AllSound)
<1>1. Init => TypeOK /\ AllSound
  BY InitType, InitSound
<1>2. TypeOK /\ AllSound /\ [Next]_vars => (TypeOK /\ AllSound)'
  <2> SUFFICES ASSUME TypeOK, AllSound, [Next]_vars PROVE TypeOK' /\ AllSound'
    OBVIOUS
  <2>1. TypeOK'
    BY StepType
  <2>2. CASE Command
    BY <2>1, <2>2, CommandSound
  <2>3. CASE Deliver
    BY <2>1, <2>3, DeliverSound
  <2>4. CASE AcceptBatch
    BY <2>1, <2>4, AcceptSound
  <2>5. CASE Execute
    BY <2>1, <2>5, ExecuteSound
  <2>6. CASE Restart
    BY <2>1, <2>6, RestartSound
  <2>7. ASSUME NEW s \in Sessions, Joined(s) \/ Left(s) \/ TimerFired(s) \/ Quit(s)
        PROVE  AllSound'
    BY <2>1, <2>7, JoinedSound, LeftSound, TimerSound, QuitSound
  <2>8. CASE UNCHANGED vars
    <3>1. \A t \in Sessions : Spared(t)
      BY <2>8 DEF vars, plugin, history, Spared
    <3>2. Grows
      BY <2>8, StoredUnchanged DEF vars
    <3> QED
      BY <2>1, <3>1, <3>2, Elsewhere DEF AllSound
  <2> QED
    BY <2>1, <2>2, <2>3, <2>4, <2>5, <2>6, <2>7, <2>8 DEF Next
<1> QED
  BY <1>1, <1>2, PTL DEF Spec

(***************************************************************************)
(* The account a session holds was stored under the version it holds it    *)
(* at, and an unlocked session has one: the expect("authenticated          *)
(* account") of change_password never fails.                               *)
(***************************************************************************)
THEOREM AccountIsStoredAlways == Spec => []AccountIsStored
<1>1. TypeOK /\ AllSound => AccountIsStored
  <2> SUFFICES ASSUME TypeOK, AllSound PROVE AccountIsStored
    OBVIOUS
  <2>1. ASSUME NEW s \in DOMAIN sessions, NEW x \in sessions[s].account
        PROVE  x \in AccountsOf(AccountOf[s])
    <3>1. x \in AccountRecords /\ Known(s, x)
      BY <2>1, KnownVersionType DEF AllSound, Sound, Informed, TypeOK
    <3>2. x \in Found(AccountOf[s], x.version)
      BY <3>1 DEF AccountRecords, Known, Found
    <3>3. x.version \in 0 .. Version(AccountOf[s])
      BY <3>1 DEF Known, AccountRecords
    <3> QED
      BY <3>2, <3>3 DEF AccountsOf
  <2>2. ASSUME NEW s \in DOMAIN sessions, sessions[s].authenticated
        PROVE  sessions[s].account # {}
    BY <2>2 DEF AllSound, Sound, Unlocked, TypeOK
  <2>3. reads \cup DOMAIN saves \subseteq DOMAIN sessions
    BY DEF AllSound, Sound, Waiting, TypeOK
  <2> QED
    BY <2>1, <2>2, <2>3 DEF AccountIsStored
<1> QED
  BY <1>1, AlwaysSound, PTL

(***************************************************************************)
(* The password that unlocked a session was the account's at some time     *)
(* since the session joined.                                               *)
(***************************************************************************)
THEOREM UnlockIsEarnedAlways == Spec => []UnlockIsEarned
<1>1. AllSound => UnlockIsEarned
  BY DEF AllSound, Sound, Unlocked, Earned, UnlockIsEarned
<1> QED
  BY <1>1, AlwaysSound, PTL

(***************************************************************************)
(* A password is replaced only by a session whose player typed it: no      *)
(* registration overwrites an account, whichever sessions race for it.     *)
(***************************************************************************)
THEOREM OverwritesKnowOld == Spec => OverwriteKnowsOld
<1> DEFINE Overwrite ==
      \A a \in Accounts :
         stored'[a] # stored[a] /\ stored[a] # <<>> =>
            \E call \in calls \ calls' : call.type = "cas" /\ Last(stored[a]) \in call.old
<1>1. TypeOK /\ AllSound /\ [Next]_vars => [Overwrite]_vars
  <2> SUFFICES ASSUME TypeOK, AllSound, Next, NEW a \in Accounts,
                      stored'[a] # stored[a], stored[a] # <<>>
               PROVE  \E call \in calls \ calls' :
                         call.type = "cas" /\ Last(stored[a]) \in call.old
    OBVIOUS
  <2>1. Execute
    BY DEF Next, Command, Register, Login, ChangePassword, Unknown, Deliver, AcceptBatch,
           Restart, Joined, Left, TimerFired, Quit
  <2> PICK call \in calls :
        /\ calls' = calls \ {call}
        /\ ExecuteGet(call) \/ ExecuteCas(call)
    BY <2>1 DEF Execute
  <2> DEFINE b == AccountOf[call.session]
             record == [version |-> Version(b), value |-> stored[b]]
             longer == Append(stored[b], call.value)
  <2>2. call.session \in Sessions /\ b \in Accounts /\ Sound(call.session)
    BY SessionsAssumption DEF TypeOK, Gets, Writes, AllSound
  <2>3. PICK x \in CasExecutions(record, call.expected, longer) :
          stored' = [stored EXCEPT ![b] = x.record.value]
    BY DEF ExecuteGet, ExecuteCas
  <2>4. call.type = "cas"
    BY DEF ExecuteGet, ExecuteCas
  <2>5. a = b /\ x.record # record
    BY <2>2, <2>3 DEF TypeOK
  <2>6. Version(a) = call.expected
    <3> HIDE DEF longer
    <3>1. record.version = Version(b)
      OBVIOUS
    <3> HIDE DEF record
    <3> QED
      BY <2>5, <3>1, WriteOutcomes
  <2>7. Version(a) # 0
    BY DEF Version, TypeOK
  <2>8. stored[a][call.expected] \in call.old
    BY <2>2, <2>4, <2>5, <2>6, <2>7 DEF Sound, Checked
  <2> QED
    BY <2>4, <2>6, <2>8 DEF Last, Version
<1> QED
  BY <1>1, AlwaysSound, PTL DEF Spec, OverwriteKnowsOld

(***************************************************************************)
(* A session that timed out or failed too often is never unlocked          *)
(* afterwards, whatever answer is still under way.                         *)
(***************************************************************************)
THEOREM DismissedStaysOutAlways == Spec => DismissedStaysOut
<1> DEFINE StaysOut == \A s \in dismissed : Unlock(s) \in outbox' => Unlock(s) \in outbox
<1>1. TypeOK /\ AllSound /\ [Next]_vars => [StaysOut]_vars
  <2> SUFFICES ASSUME TypeOK, AllSound, Next, NEW s \in dismissed,
                      Unlock(s) \in outbox', Unlock(s) \notin outbox
               PROVE  FALSE
    OBVIOUS
  <2>1. \A t : Unlock(t) = Unlock(s) => t = s
    BY DEF Unlock
  <2>2. \A t \in Sessions : \A account : Authenticate(t, account) => t = s
    BY <2>1, SignalSessions DEF Authenticate, Send
  <2>3. Sound(s) /\ s \in Sessions
    BY DEF AllSound, TypeOK
  <2>4. CASE Command
    <3>1. ASSUME NEW t, NEW p, NEW change, NEW old PROVE ~ Save(t, p, change, old)
      BY SignalSessions DEF Save, Send
    <3>2. ASSUME NEW t PROVE ~ Wrong(t)
      BY SignalSessions DEF Wrong, Send
    <3>3. \A t \in Sessions, p \in Passwords : ~ Register(t, p)
      BY <3>1 DEF Register
    <3>4. \A t \in Sessions, old, p \in Passwords : ~ ChangePassword(t, old, p)
      BY <3>1, <3>2 DEF ChangePassword
    <3>5. \A t \in Sessions : ~ Unknown(t)
      BY SignalSessions DEF Unknown, Send
    <3>6. PICK t \in Sessions, p \in Passwords : Login(t, p)
      BY <2>4, <3>3, <3>4, <3>5 DEF Command
    <3>7. Ready(t) /\ t = s
      BY <2>2, <3>2, <3>6 DEF Login
    <3> QED
      BY <2>3, <3>7, ReadyIsIdle
  <2>5. CASE Deliver
    <3> PICK m \in answers :
          \/ AccountRead(m.session, m)
          \/ AccountSaved(m.session, m)
          \/ Ignored(m.session, m)
      BY <2>5 DEF Deliver
    <3>1. m.session \in Sessions /\ (m.type = "cas" => m.outcome \in {"committed", "refused", "failed"})
      BY DEF TypeOK, Answers
    <3>2. AccountSaved(m.session, m)
      BY SignalSessions DEF AccountRead, Ignored, Send
    <3>3. m.session = s
      <4>1. ~ SaveRefused(m.session) /\ ~ SaveFailed(m.session)
        BY SignalSessions DEF SaveRefused, SaveFailed, Send
      <4>2. SaveCommitted(m.session, saves[m.session], m.version)
        BY <3>1, <3>2, <4>1 DEF AccountSaved
      <4> QED
        BY <2>2, <3>1, <4>2 DEF SaveCommitted
    <3> QED
      BY <2>3, <3>2, <3>3 DEF AccountSaved, Sound, Waiting, Dismissed, Silenced
  <2>6. ~ (AcceptBatch \/ Execute \/ Restart)
    BY DEF AcceptBatch, Execute, Restart
  <2>7. ASSUME NEW t \in Sessions PROVE ~ (Joined(t) \/ Left(t) \/ TimerFired(t) \/ Quit(t))
    BY SignalSessions DEF Joined, Left, TimerFired, Quit, Send
  <2> QED
    BY <2>4, <2>5, <2>6, <2>7 DEF Next
<1> QED
  BY <1>1, AlwaysSound, PTL DEF Spec, DismissedStaysOut
=============================================================================
