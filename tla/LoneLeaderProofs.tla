--------------------------- MODULE LoneLeaderProofs ---------------------------
(***************************************************************************)
(* Proofs about a cluster with one leader, set by its flag and never       *)
(* challenged, that writes a key one write at a time: its clients see the  *)
(* register of KVRegister, and a replica that starts again with nothing    *)
(* recovers what they were told is stored.                                 *)
(***************************************************************************)
EXTENDS LeaderRegister, OneProposerProofs, StartupProofs, SequenceTheorems

\* How such a cluster is set up and used; the leader's calls to itself do not fail.
LoneLeader ==
  /\ Flagged = {TheLeader}
  /\ Electors = {} /\ LeaderKey \notin ClientKey
  /\ MaxRunning <= 1
  /\ <<TheLeader, TheLeader>> \notin Lossy

\* The leader is a replica, and can be stored as one.
LEMMA TheLeaderIsNode ==
  ASSUME LoneLeader
  PROVE  TheLeader \in Node /\ TheLeader \in Payload
BY ConstantsAssumption DEF LoneLeader, Payload

-----------------------------------------------------------------------------
(* What the leader's own log says of all the others.                       *)

\* A log has accepted a value at a round.
Accepts(lg, r) == r \in Known(lg) /\ lg[r].a_server_id > 0

LeaderLog(k) == Known(log[TheLeader][k])

\* A proposer that has yet to ask, or is asking, what was accepted.
Asking == {"ping", "propose"}

\* Whatever a's handlers may still write, no proposer that is yet to ask can meet it.
Past(a) ==
  /\ att[a].round \in LeaderLog(att[a].key)
  /\ \A b \in DOMAIN att : Active(b) /\ att[b].key = att[a].key =>
       \/ b = a /\ att[a].pc \notin Asking
       \/ att[a].round < att[b].round

\* The leader has the round in its log once it has proposed to itself.
Proposed(t) == (t.pc = "propose" /\ TheLeader \in t.todo) \/ t.round \in LeaderLog(t.key)

\* An attempt of the leader: its round is the next of the leader's log, so nobody has
\* accepted anything there, and it proposes the value it was asked to write.
LoneTask(a) ==
  /\ att[a].node = TheLeader /\ att[a].key \in DataKey /\ att[a].accepted_id = 0
  /\ 0 .. att[a].round - 1 \subseteq LeaderLog(att[a].key)
  /\ att[a].pc \notin {"ping", "fail", "dead"} => Proposed(att[a])
  /\ Active(a) =>
       /\ \A b \in DOMAIN att : att[b].key = att[a].key => b <= a
       /\ \A s \in LeaderLog(att[a].key) : s <= att[a].round
  /\ att[a].pc \in Asking => \A n \in Node : ~ Accepts(log[n][att[a].key], att[a].round)
  /\ att[a].pc = "storing" /\ IsNext(att[a], TheLeader) => <<a, "store", TheLeader>> \in running

\* A handler that is still to run: on the leader only the rest of a success its proposer
\* waits for.
LoneRun(c) ==
  /\ c[2] # "propose" => Past(c[1])
  /\ c[3] = TheLeader =>
       c[2] = "store" /\ att[c[1]].pc = "storing" /\ IsNext(att[c[1]], TheLeader)

LoneInv ==
  /\ LoneLeader
  /\ \A n \in Node : leader[n] \in {TheLeader, Nothing}
  /\ leader[TheLeader] = TheLeader
  /\ \A a \in DOMAIN att : LoneTask(a)
  /\ \A c \in running : LoneRun(c)
  /\ \A k \in DataKey : \A r \in LeaderLog(k) : 0 .. r \subseteq LeaderLog(k)
  /\ \A n \in Node, k \in DataKey, r \in Round : Accepts(log[n][k], r) => r \in LeaderLog(k)

-----------------------------------------------------------------------------
(* One step of one attempt.                                                *)

\* Attempt a becomes u.
LoneMove(a, u) ==
  /\ att' = [att EXCEPT ![a] = u]
  /\ SameRequest(att[a], u) /\ u.accepted_id = 0
  /\ u.pc \in Stage => att[a].pc \in Stage
  /\ u.pc \in Asking => att[a].pc \in Asking
  /\ u.pc \notin {"ping", "fail", "dead"} =>
       \/ u.pc = "propose" /\ TheLeader \in u.todo
       \/ u.round \in Known(log'[TheLeader][u.key])
  /\ u.pc = "storing" /\ IsNext(u, TheLeader) => <<a, "store", TheLeader>> \in running'

\* What the logs learn of attempt a.
LogsLearn(a) ==
  /\ LogGrows
  /\ \A k \in DataKey :
       \/ Known(log'[TheLeader][k]) = Known(log[TheLeader][k])
       \/ /\ Active(a) /\ k = att[a].key
          /\ Known(log'[TheLeader][k]) = Known(log[TheLeader][k]) \cup {att[a].round}
  /\ \A n \in Node, k \in DataKey, r \in Round : Accepts(log'[n][k], r) =>
       Accepts(log[n][k], r) \/ (k = att[a].key /\ r = att[a].round /\ Past(a))

\* How the handlers still to run change with a step of attempt a.
RunsOn(a, u) ==
  /\ \A c \in running' \ running :
       /\ c[1] = a
       /\ c[2] # "propose" => Past(a)
       /\ c[3] = TheLeader => c[2] = "store" /\ u.pc = "storing" /\ IsNext(u, TheLeader)
  /\ \A c \in running \cap running' :
       c[1] = a /\ c[3] = TheLeader => u.pc = "storing" /\ IsNext(u, TheLeader)
  /\ \A c \in running \ running' : c[1] = a

\* Two attempts under way are for two keys.
LEMMA LoneAlone ==
  ASSUME TypeInv, LoneInv, NEW a \in DOMAIN att, NEW b \in DOMAIN att, Active(a), Active(b),
         att[a].key = att[b].key
  PROVE  a = b
<1>1. a \in Nat /\ b \in Nat
  BY DEF TypeInv, AttInv
<1>2. a <= b /\ b <= a
  BY DEF LoneInv, LoneTask
<1> QED BY <1>1, <1>2

\* What is known of an attempt that is past its proposals.
LEMMA PastProposals ==
  ASSUME TypeInv, LoneInv, NEW a \in DOMAIN att, Active(a), att[a].pc \notin Asking
  PROVE  Past(a)
<1>1. att[a].round \in LeaderLog(att[a].key)
  BY DEF LoneInv, LoneTask, Proposed, Active, Stage, Asking
<1>2. \A b \in DOMAIN att : Active(b) /\ att[b].key = att[a].key => b = a
  BY LoneAlone
<1> QED BY <1>1, <1>2 DEF Past

\* The leader's log has rounds.
LEMMA LeaderRounds ==
  ASSUME TypeInv, LoneInv, NEW k \in DataKey
  PROVE  LeaderLog(k) \subseteq Round /\ LeaderLog(k) \subseteq Nat /\ IsFiniteSet(LeaderLog(k))
<1>1. TheLeader \in Node /\ k \in Key
  BY TheLeaderIsNode DEF LoneInv, Key
<1>2. DOMAIN log[TheLeader][k] = Round
  BY <1>1 DEF TypeInv, LogInv, LogType
<1>3. LeaderLog(k) \subseteq Round
  BY <1>2 DEF LeaderLog, Known
<1>4. IsFiniteSet(Round) /\ Round \subseteq Nat
  BY FS_Interval, ConstantsAssumption DEF Round
<1> QED BY <1>3, <1>4, FS_Subset

\* The types of an attempt's parts.
LEMMA LoneTypes ==
  ASSUME TypeInv, LoneInv, NEW a \in DOMAIN att
  PROVE  /\ a \in Nat /\ GoodTask(att[a]) /\ att[a].node = TheLeader
         /\ att[a].key \in DataKey /\ att[a].key \in Key /\ att[a].key # LeaderKey
         /\ att[a].by = "set"
         /\ att[a].round \in Round /\ att[a].round \in Nat
<1>1. a \in Nat /\ GoodTask(att[a]) /\ att[a].round \in Round
  BY DEF TypeInv, AttInv, GoodTask, Task
<1>2. att[a].node = TheLeader /\ att[a].key \in DataKey
  BY DEF LoneInv, LoneTask
<1>3. att[a].round \in Nat
  BY <1>1, ConstantsAssumption DEF Round
<1>4. att[a].key # LeaderKey /\ att[a].by = "set"
  BY <1>1, <1>2, ConstantsAssumption DEF GoodTask, Asked
<1> QED BY <1>1, <1>2, <1>3, <1>4 DEF Key

\* A step of one attempt leaves what handlers may write where it was.
LEMMA PastStays ==
  ASSUME TypeInv, LoneInv, NEW a \in DOMAIN att, NEW u, LoneMove(a, u), LogGrows,
         NEW b \in DOMAIN att, Past(b)
  PROVE  Past(b)'
<1>1. DOMAIN att' = DOMAIN att /\ \A c \in DOMAIN att : att'[c] = IF c = a THEN u ELSE att[c]
  BY DEF LoneMove, TypeInv, AttInv
<1>2. \A c \in DOMAIN att : /\ SameRequest(att[c], att'[c])
                            /\ Active(c)' => Active(c)
                            /\ att'[c].pc \in Asking => att[c].pc \in Asking
  BY <1>1 DEF LoneMove, SameRequest, Active
<1>3. att'[b].round \in Known(log'[TheLeader][att[b].key])
  <2>1. att[b].key \in Key /\ att'[b].round = att[b].round
    BY <1>2, LoneTypes DEF SameRequest
  <2>2. TheLeader \in Node
    BY LoneTypes DEF GoodTask, Task
  <2> QED BY <2>1, <2>2 DEF Past, LeaderLog, LogGrows
<1>4. \A c \in DOMAIN att' : Active(c)' /\ att'[c].key = att'[b].key =>
        \/ c = b /\ att'[b].pc \notin Asking
        \/ att'[b].round < att'[c].round
  <2> SUFFICES ASSUME NEW c \in DOMAIN att, Active(c)', att'[c].key = att'[b].key
               PROVE  \/ c = b /\ att'[b].pc \notin Asking
                      \/ att'[b].round < att'[c].round
    BY <1>1
  <2>1. Active(c) /\ att[c].key = att[b].key
    BY <1>2 DEF SameRequest
  <2>2. (c = b /\ att[b].pc \notin Asking) \/ att[b].round < att[c].round
    BY <2>1 DEF Past
  <2> QED BY <1>2, <2>2 DEF SameRequest
<1>5. att'[b].round \in Known(log'[TheLeader][att'[b].key])
  BY <1>2, <1>3 DEF SameRequest
<1> QED BY <1>4, <1>5 DEF Past, LeaderLog

\* Such a step leaves the other attempts as the invariant says they are.
LEMMA OthersStay ==
  ASSUME TypeInv, LoneInv, NEW a \in DOMAIN att, NEW u, LoneMove(a, u), LogsLearn(a), RunsOn(a, u),
         NEW b \in DOMAIN att, b # a
  PROVE  LoneTask(b)'
<1>1. DOMAIN att' = DOMAIN att /\ att'[b] = att[b]
      /\ \A c \in DOMAIN att : att'[c].key = att[c].key
  BY DEF LoneMove, TypeInv, AttInv, SameRequest
<1>2. LoneTask(b) /\ att[b].key \in DataKey /\ att[b].round \in Nat /\ att[b].key \in Key
      /\ att[b].round \in Round /\ TheLeader \in Node
  BY LoneTypes DEF LoneInv, GoodTask, Task
<1>3. LeaderLog(att[b].key) \subseteq Known(log'[TheLeader][att[b].key])
  BY <1>1, <1>2 DEF LogsLearn, LogGrows, LeaderLog
<1>4. 0 .. att'[b].round - 1 \subseteq Known(log'[TheLeader][att'[b].key])
  BY <1>1, <1>2, <1>3 DEF LoneTask
<1>5. att'[b].pc \notin {"ping", "fail", "dead"} => Proposed(att[b])'
  BY <1>1, <1>2, <1>3 DEF LoneTask, Proposed, LeaderLog
<1>6. ASSUME Active(b)
      PROVE  /\ \A c \in DOMAIN att' : att'[c].key = att'[b].key => c <= b
             /\ \A s \in Known(log'[TheLeader][att'[b].key]) : s <= att'[b].round
  <2>1. Active(a) => att[b].key # att[a].key
    BY <1>6, LoneAlone
  <2>2. Known(log'[TheLeader][att[b].key]) = LeaderLog(att[b].key)
    BY <1>1, <1>2, <2>1 DEF LogsLearn, LeaderLog
  <2> QED BY <1>1, <1>2, <1>6, <2>2 DEF LoneTask
<1>7. ASSUME att[b].pc \in Asking
      PROVE  \A n \in Node : ~ Accepts(log'[n][att'[b].key], att'[b].round)
  <2> SUFFICES ASSUME NEW n \in Node, Accepts(log'[n][att[b].key], att[b].round)
               PROVE  FALSE
    BY <1>1
  <2>1. ~ Accepts(log[n][att[b].key], att[b].round) /\ Active(b)
    BY <1>2, <1>7 DEF LoneTask, Active, Stage, Asking
  <2>2. att[b].key = att[a].key /\ att[b].round = att[a].round /\ Past(a)
    BY <1>2, <2>1 DEF LogsLearn
  <2> QED BY <1>2, <2>1, <2>2 DEF Past
<1>8. att'[b].pc = "storing" /\ IsNext(att'[b], TheLeader) => <<b, "store", TheLeader>> \in running'
  <2>1. <<b, "store", TheLeader>> \in running => <<b, "store", TheLeader>> \in running'
    BY DEF RunsOn
  <2> QED BY <1>1, <1>2, <2>1 DEF LoneTask
<1>9. Active(b)' <=> Active(b)
  BY <1>1 DEF Active
<1> QED BY <1>1, <1>2, <1>4, <1>5, <1>6, <1>7, <1>8, <1>9 DEF LoneTask, LeaderLog

\* And the attempt itself.
LEMMA SelfMoves ==
  ASSUME TypeInv, LoneInv, NEW a \in DOMAIN att, NEW u, LoneMove(a, u), LogsLearn(a), RunsOn(a, u)
  PROVE  LoneTask(a)'
<1>1. DOMAIN att' = DOMAIN att /\ att'[a] = u /\ \A c \in DOMAIN att : att'[c].key = att[c].key
  BY DEF LoneMove, TypeInv, AttInv, SameRequest
<1>2. LoneTask(a) /\ att[a].key \in DataKey /\ att[a].round \in Nat /\ att[a].key \in Key
      /\ att[a].round \in Round /\ TheLeader \in Node
  BY LoneTypes DEF LoneInv, GoodTask, Task
<1>3. u.node = att[a].node /\ u.key = att[a].key /\ u.round = att[a].round /\ u.accepted_id = 0
  BY DEF LoneMove, SameRequest
<1>4. 0 .. u.round - 1 \subseteq LeaderLog(u.key)'
  <2>1. LeaderLog(att[a].key) \subseteq Known(log'[TheLeader][att[a].key])
    BY <1>2 DEF LogsLearn, LogGrows, LeaderLog
  <2> QED BY <1>2, <1>3, <2>1 DEF LoneTask, LeaderLog
<1>5. u.pc \notin {"ping", "fail", "dead"} =>
        (u.pc = "propose" /\ TheLeader \in u.todo) \/ u.round \in LeaderLog(u.key)'
  BY DEF LoneMove, LeaderLog
<1>6. ASSUME u.pc \in Stage
      PROVE  /\ \A c \in DOMAIN att' : att'[c].key = u.key => c <= a
             /\ \A s \in LeaderLog(u.key)' : s <= u.round
  <2>1. Active(a)
    BY <1>6 DEF LoneMove, Active
  <2>2. Known(log'[TheLeader][att[a].key]) \subseteq LeaderLog(att[a].key) \cup {att[a].round}
    BY <1>2 DEF LogsLearn, LeaderLog
  <2> QED BY <1>1, <1>2, <1>3, <2>1, <2>2 DEF LoneTask, LeaderLog
<1>7. ASSUME u.pc \in Asking
      PROVE  \A n \in Node : ~ Accepts(log'[n][u.key], u.round)
  <2> SUFFICES ASSUME NEW n \in Node, Accepts(log'[n][att[a].key], att[a].round)
               PROVE  FALSE
    BY <1>3
  <2>1. ~ Accepts(log[n][att[a].key], att[a].round) /\ Active(a) /\ att[a].pc \in Asking
    BY <1>2, <1>7 DEF LoneTask, Active, Stage, Asking, LoneMove
  <2>2. Past(a)
    BY <1>2, <2>1 DEF LogsLearn
  <2> QED BY <1>2, <2>1, <2>2 DEF Past
<1>8. u.pc = "storing" /\ IsNext(u, TheLeader) => <<a, "store", TheLeader>> \in running'
  BY DEF LoneMove
<1>9. Active(a)' <=> u.pc \in Stage
  BY <1>1 DEF Active
<1> QED BY <1>1, <1>2, <1>3, <1>4, <1>5, <1>6, <1>7, <1>8, <1>9 DEF LoneTask, Proposed, LeaderLog

\* Together: the invariant is kept.
LEMMA MoveKeeps ==
  ASSUME TypeInv, TypeInv', LoneInv, NEW a \in DOMAIN att, NEW u, LoneMove(a, u), LogsLearn(a),
         RunsOn(a, u), UNCHANGED leader
  PROVE  LoneInv'
<1>1. DOMAIN att' = DOMAIN att /\ \A b \in DOMAIN att : att'[b] = IF b = a THEN u ELSE att[b]
  BY DEF LoneMove, TypeInv, AttInv
<1>2. \A b \in DOMAIN att' : LoneTask(b)'
  BY <1>1, OthersStay, SelfMoves
<1>3. ASSUME NEW c \in running' PROVE LoneRun(c)'
  <2>1. c[1] \in DOMAIN att /\ c[3] \in Node
    BY <1>1, <1>3 DEF TypeInv, RestInv
  <2>2. c[2] # "propose" => Past(c[1])
    BY <1>3 DEF LoneInv, LoneRun, RunsOn
  <2>3. Past(c[1]) => Past(c[1])'
    BY <2>1, PastStays DEF LogsLearn
  <2>4. c[3] = TheLeader =>
          c[2] = "store" /\ att'[c[1]].pc = "storing" /\ IsNext(att'[c[1]], TheLeader)
    <3>1. CASE c \in running
      BY <1>1, <1>3, <2>1, <3>1 DEF LoneInv, LoneRun, RunsOn
    <3>2. CASE c \notin running
      BY <1>1, <1>3, <2>1, <3>2 DEF RunsOn
    <3> QED BY <3>1, <3>2
  <2> QED BY <2>2, <2>3, <2>4 DEF LoneRun
<1>4. ASSUME NEW k \in DataKey, NEW r \in LeaderLog(k)' PROVE 0 .. r \subseteq LeaderLog(k)'
  <2>1. CASE r \in LeaderLog(k)
    <3>1. 0 .. r \subseteq LeaderLog(k)
      BY <2>1 DEF LoneInv
    <3>2. LeaderLog(k) \subseteq LeaderLog(k)'
      BY DEF LogsLearn, LeaderLog
    <3> QED BY <3>1, <3>2
  <2>2. CASE r \notin LeaderLog(k)
    <3>1. k = att[a].key /\ r = att[a].round
          /\ LeaderLog(k)' = LeaderLog(k) \cup {r}
      BY <1>4, <2>2 DEF LogsLearn, LeaderLog
    <3>2. 0 .. r - 1 \subseteq LeaderLog(k) /\ r \in Nat
      BY <3>1, LoneTypes DEF LoneInv, LoneTask
    <3> QED BY <3>1, <3>2
  <2> QED BY <2>1, <2>2
<1>5. ASSUME NEW n \in Node, NEW k \in DataKey, NEW r \in Round, Accepts(log'[n][k], r)
      PROVE  r \in LeaderLog(k)'
  <2>1. r \in LeaderLog(k)
    BY <1>5 DEF LogsLearn, LoneInv, Past
  <2> QED BY <2>1 DEF LogsLearn, LeaderLog
<1> QED BY <1>2, <1>3, <1>4, <1>5 DEF LoneInv, LoneLeader

-----------------------------------------------------------------------------
(* What the handlers write.                                                *)

\* A proposal accepts nothing.
LEMMA TouchAccepts ==
  ASSUME NEW lg \in LogType, NEW r \in Round, NEW s \in Round, Accepts(Touch(lg, r), s)
  PROVE  Accepts(lg, s)
<1>1. NewEntry.a_server_id = 0
  BY DEF NewEntry
<1>2. Touch(lg, r)[s] = IF s = r THEN EntryAt(lg, r) ELSE lg[s]
  BY DEF Touch, LogType
<1>3. DOMAIN lg = Round /\ DOMAIN Touch(lg, r) = Round
  BY DEF Touch, LogType
<1>4. CASE s = r
  <2>1. Touch(lg, r)[s].a_server_id > 0
    BY DEF Accepts
  <2>2. lg[s] # Absent
    BY <1>1, <1>2, <1>4, <2>1 DEF EntryAt
  <2> QED BY <1>2, <1>3, <1>4, <2>1, <2>2 DEF Accepts, Known, EntryAt
<1>5. CASE s # r
  BY <1>2, <1>3, <1>5 DEF Accepts, Known
<1> QED BY <1>4, <1>5

\* An accept changes its own round only.
LEMMA AcceptAccepts ==
  ASSUME NEW lg \in LogType, NEW r \in Round, NEW v, NEW s \in Round, s # r,
         Accepts(Accept(lg, r, v), s)
  PROVE  Accepts(lg, s)
<1>1. Accept(lg, r, v)[s] = lg[s]
  BY DEF Accept, LogType
<1>2. DOMAIN lg = Round /\ DOMAIN Accept(lg, r, v) = Round
  BY DEF Accept, LogType
<1> QED BY <1>1, <1>2 DEF Accepts, Known

\* A log that was not written to.
LEMMA NothingLearnt ==
  ASSUME UNCHANGED log, NEW a
  PROVE  LogsLearn(a)
BY DEF LogsLearn, LogGrows

\* What the leader's log learns from a handler.
LEMMA LeaderLearns ==
  ASSUME TypeInv, LoneInv, NEW a \in DOMAIN att, NEW n \in Node, LogStep(a, n),
         n = TheLeader => Active(a) \/ att[a].round \in LeaderLog(att[a].key)
  PROVE  /\ LogGrows
         /\ att[a].round \in Known(log'[n][att[a].key])
         /\ \A k \in DataKey :
              \/ Known(log'[TheLeader][k]) = Known(log[TheLeader][k])
              \/ /\ Active(a) /\ k = att[a].key
                 /\ Known(log'[TheLeader][k]) = Known(log[TheLeader][k]) \cup {att[a].round}
         /\ \A m \in Node, k \in Key : (m = n /\ k = att[a].key) \/ log'[m][k] = log[m][k]
<1>1. /\ Known(log'[n][att[a].key]) = Known(log[n][att[a].key]) \cup {att[a].round}
      /\ \A m \in Node, k \in Key : ~ (m = n /\ k = att[a].key) => log'[m][k] = log[m][k]
      /\ LogGrows
  BY LogStepKnown
<1>2. TheLeader \in Node /\ \A k \in DataKey : k \in Key
  BY LoneTypes DEF GoodTask, Task, Key
<1>3. ASSUME NEW k \in DataKey
      PROVE  \/ Known(log'[TheLeader][k]) = Known(log[TheLeader][k])
             \/ /\ Active(a) /\ k = att[a].key
                /\ Known(log'[TheLeader][k]) = Known(log[TheLeader][k]) \cup {att[a].round}
  <2>1. CASE TheLeader = n /\ k = att[a].key
    BY <1>1, <2>1 DEF LeaderLog
  <2>2. CASE ~ (TheLeader = n /\ k = att[a].key)
    BY <1>1, <1>2, <2>2
  <2> QED BY <2>1, <2>2
<1> QED BY <1>1, <1>3

\* A handler of propose.
LEMMA ProposeLearns ==
  ASSUME TypeInv, LoneInv, NEW a \in DOMAIN att, NEW n \in Node, HandlePropose(a, n),
         n = TheLeader => Active(a)
  PROVE  LogsLearn(a) /\ att[a].round \in Known(log'[n][att[a].key])
<1> DEFINE j == att[a].key
           lg == Touch(log[n][j], att[a].round)
<1>1. LogStep(a, n)
  BY HandlersLogStep
<1>2. j \in Key /\ att[a].round \in Round
  BY LoneTypes
<1>3. log \in [Node -> [Key -> LogType]]
  BY DEF TypeInv, LogInv
<1>4. log'[n][j] = lg
  BY <1>2, <1>3 DEF HandlePropose
<1>5. \A r \in Round : Accepts(lg, r) => Accepts(log[n][j], r)
  BY <1>2, <1>3, TouchAccepts
<1>6. \A k \in DataKey : k \in Key
  BY DEF Key
<1> HIDE DEF j, lg
<1>7. \A m \in Node, k \in DataKey, r \in Round : Accepts(log'[m][k], r) => Accepts(log[m][k], r)
  BY <1>1, <1>4, <1>5, <1>6, LeaderLearns DEF j
<1> QED BY <1>1, <1>7, LeaderLearns DEF LogsLearn

\* A handler of accept, or of success, which writes the same.
LEMMA AcceptLearns ==
  ASSUME TypeInv, LoneInv, NEW a \in DOMAIN att, NEW n \in Node,
         HandleAccept(a, n) \/ LogSuccess(a, n), Past(a)
  PROVE  LogsLearn(a) /\ att[a].round \in Known(log'[n][att[a].key])
<1> DEFINE j == att[a].key
           lg == Accept(log[n][j], att[a].round, Chosen(att[a]))
<1>1. LogStep(a, n)
  BY HandlersLogStep
<1>2. j \in Key /\ att[a].round \in Round
  BY LoneTypes
<1>3. log \in [Node -> [Key -> LogType]]
  BY DEF TypeInv, LogInv
<1>4. log'[n][j] = lg
  BY <1>2, <1>3 DEF HandleAccept, LogSuccess
<1>5. \A r \in Round : Accepts(lg, r) => Accepts(log[n][j], r) \/ r = att[a].round
  BY <1>2, <1>3, AcceptAccepts
<1>6. \A k \in DataKey : k \in Key
  BY DEF Key
<1>7. att[a].round \in LeaderLog(att[a].key)
  BY DEF Past
<1> HIDE DEF j, lg
<1>8. \A m \in Node, k \in DataKey, r \in Round :
        Accepts(log'[m][k], r) => Accepts(log[m][k], r) \/ (k = j /\ r = att[a].round)
  BY <1>1, <1>4, <1>5, <1>6, <1>7, LeaderLearns DEF j
<1> QED BY <1>1, <1>7, <1>8, LeaderLearns DEF LogsLearn, j

-----------------------------------------------------------------------------
(* What the clients see of a step.                                         *)

RegisterStep == [Register!Next]_<<kv[TheLeader], ClientWrites>>

\* What a step of attempt a is to its client: nothing, a refusal, the write itself, or its
\* acknowledgement.
Shows(a, u) ==
  \/ StateOf(u) = StateOf(att[a]) /\ kv'[TheLeader] = kv[TheLeader]
  \/ StateOf(att[a]) = "pending" /\ StateOf(u) = "failed" /\ kv'[TheLeader] = kv[TheLeader]
  \/ /\ StateOf(att[a]) = "pending" /\ StateOf(u) = "applied"
     /\ kv'[TheLeader] = [kv[TheLeader] EXCEPT ![att[a].key] = att[a].value]
     /\ ver'[TheLeader][att[a].key] = att[a].round
  \/ StateOf(att[a]) = "applied" /\ StateOf(u) = "ok" /\ kv'[TheLeader] = kv[TheLeader]

\* What a step of an attempt does to the leader's store is a step of the register or of none.
LEMMA ShowsStep ==
  ASSUME TypeInv, LoneInv, NEW a \in DOMAIN att, NEW u, LoneMove(a, u), Shows(a, u)
  PROVE  RegisterStep
<1>1. DOMAIN att' = DOMAIN att /\ \A b \in DOMAIN att : att'[b] = IF b = a THEN u ELSE att[b]
  BY DEF LoneMove, TypeInv, AttInv
<1>2. u.key = att[a].key /\ u.value = att[a].value
  BY DEF LoneMove, SameRequest
<1>3. ClientWrites' = [b \in DOMAIN att |-> [key |-> att[b].key, value |-> att[b].value,
                                            state |-> IF b = a THEN StateOf(u) ELSE StateOf(att[b])]]
  BY <1>1, <1>2 DEF ClientWrites, StateOf
<1>4. ClientWrites' = [ClientWrites EXCEPT ![a].state = StateOf(u)]
  BY <1>3 DEF ClientWrites
<1>5. a \in DOMAIN ClientWrites /\ ClientWrites[a].state = StateOf(att[a])
      /\ ClientWrites[a].key = att[a].key /\ ClientWrites[a].value = att[a].value
  BY DEF ClientWrites
<1>6. CASE StateOf(u) = StateOf(att[a]) /\ kv'[TheLeader] = kv[TheLeader]
  <2>1. ClientWrites' = ClientWrites
    BY <1>3, <1>6 DEF ClientWrites
  <2> QED BY <1>6, <2>1 DEF RegisterStep
<1>7. CASE StateOf(att[a]) = "pending" /\ StateOf(u) = "failed" /\ kv'[TheLeader] = kv[TheLeader]
  BY <1>4, <1>5, <1>7 DEF RegisterStep, Register!Next, Register!Refuse
<1>8. CASE /\ StateOf(att[a]) = "pending" /\ StateOf(u) = "applied"
           /\ kv'[TheLeader] = [kv[TheLeader] EXCEPT ![att[a].key] = att[a].value]
  BY <1>4, <1>5, <1>8 DEF RegisterStep, Register!Next, Register!Apply
<1>9. CASE StateOf(att[a]) = "applied" /\ StateOf(u) = "ok" /\ kv'[TheLeader] = kv[TheLeader]
  BY <1>4, <1>5, <1>9 DEF RegisterStep, Register!Next, Register!Acknowledge
<1> QED BY <1>6, <1>7, <1>8, <1>9 DEF Shows

\* What a step of attempt a, or of one of its handlers, is.
LoneStep(a) ==
  /\ LoneInv' /\ RegisterStep
  /\ \E u : LoneMove(a, u) /\ LogsLearn(a) /\ Shows(a, u)

\* A move that keeps LoneInv and shows as it should is what is asked of every step.
LEMMA StepShown ==
  ASSUME TypeInv, TypeInv', LoneInv, NEW a \in DOMAIN att, NEW u, LoneMove(a, u), LogsLearn(a),
         RunsOn(a, u), Shows(a, u), UNCHANGED leader
  PROVE  LoneStep(a)
BY MoveKeeps, ShowsStep DEF LoneStep

-----------------------------------------------------------------------------
(* The proposer's calls.                                                   *)

\* The end of a call moves its attempt on.
LEMMA CallMovesOn ==
  ASSUME TypeInv, LoneInv, LogGrows, NEW a \in DOMAIN att, NEW n \in Node, NEW pc \in Waits,
         att[a].pc = pc \/ (att[a].pc = "storing" /\ pc = "success"),
         NEW u, att' = [att EXCEPT ![a] = u], CallOver(att[a], pc, u, n), u.accepted_id = 0,
         n # TheLeader \/ att[a].round \in Known(log'[TheLeader][att[a].key])
  PROVE  LoneMove(a, u) /\ u.pc # "storing"
<1> DEFINE t == att[a]
<1>1. t.key \in Key /\ SameRequest(t, u) /\ LoneTask(a) /\ TheLeader \in Node
  BY LoneTypes DEF CallOver, LoneInv, GoodTask, Task
<1>2. t.pc \in Stage /\ t.pc # "ping" /\ (pc # "propose" => t.pc \notin Asking)
      /\ t.pc \notin {"ping", "fail", "dead"}
  BY DEF Waits, Stage, Asking
<1>3. (t.pc = "propose" /\ TheLeader \in t.todo) \/ t.round \in LeaderLog(t.key)
  BY <1>1, <1>2 DEF LoneTask, Proposed
<1>4. t.round \in LeaderLog(t.key) => t.round \in Known(log'[TheLeader][t.key])
  BY <1>1 DEF LogGrows, LeaderLog
<1>5. \/ u.pc = "fail"
      \/ u.pc = "propose" /\ TheLeader \in u.todo
      \/ t.round \in Known(log'[TheLeader][t.key])
  BY <1>3, <1>4 DEF CallOver, Waits
<1>6. u.pc # "storing" /\ (u.pc \in Asking => pc = "propose")
  BY DEF CallOver, Waits, Asking
<1>7. u.pc \in Asking => t.pc \in Asking
  BY <1>6 DEF Asking
<1> HIDE DEF t
<1>8. u.pc \notin {"ping", "fail", "dead"} =>
        \/ u.pc = "propose" /\ TheLeader \in u.todo
        \/ u.round \in Known(log'[TheLeader][u.key])
  BY <1>1, <1>5 DEF SameRequest
<1> QED BY <1>1, <1>2, <1>6, <1>7, <1>8 DEF LoneMove, t

\* And its client sees nothing of it, but when it is refused.
LEMMA CallShows ==
  ASSUME NEW t, NEW u, NEW pc \in Waits, t.pc = pc \/ (t.pc = "storing" /\ pc = "success"),
         NEW n, n # TheLeader \/ pc # "success", CallOver(t, pc, u, n), TheLeader \in Node
  PROVE  StateOf(u) = StateOf(t) \/ (StateOf(t) = "pending" /\ StateOf(u) = "failed")
<1>1. CASE pc = "propose"
  <2>1. t.pc = "propose" /\ u.pc \in {"propose", "accept", "fail"}
    BY <1>1 DEF CallOver
  <2> QED BY <2>1 DEF StateOf
<1>2. CASE pc = "accept"
  <2>1. t.pc = "accept"
        /\ (u.pc = "accept" \/ u.pc = "fail" \/ (u.pc = "success" /\ TheLeader \in u.todo))
    BY <1>2 DEF CallOver
  <2> QED BY <2>1 DEF StateOf
<1>3. CASE pc = "success"
  <2>1. n # TheLeader /\ t.pc \in {"success", "storing"}
    BY <1>3
  <2>2. CASE t.todo \ {n} # {}
    <3>1. u.pc = "success" /\ u.todo = t.todo \ {n}
      BY <1>3, <2>2 DEF CallOver
    <3>2. TheLeader \in u.todo <=> TheLeader \in t.todo
      BY <2>1, <3>1
    <3> QED BY <2>1, <3>1, <3>2 DEF StateOf
  <2>3. CASE t.todo \ {n} = {}
    <3>1. u.pc = "return" /\ TheLeader \notin t.todo
      BY <1>3, <2>1, <2>3 DEF CallOver
    <3> QED BY <2>1, <3>1 DEF StateOf
  <2> QED BY <2>2, <2>3
<1> QED BY <1>1, <1>2, <1>3 DEF Waits

\* A call that leaves no handler behind, or one on another replica.
LEMMA CallRunsOn ==
  ASSUME TypeInv, LoneInv, NEW a \in DOMAIN att, att[a].pc \in Waits, NEW n \in Node, NEW u,
         running' = running \/ (running' = running \cup {<<a, att[a].pc, n>>} /\ n # TheLeader)
  PROVE  RunsOn(a, u)
<1>1. att[a].pc # "storing" /\ (att[a].pc # "propose" => att[a].pc \notin Asking) /\ Active(a)
  BY DEF Waits, Asking, Active, Stage
<1>2. att[a].pc # "propose" => Past(a)
  BY <1>1, PastProposals
<1>3. \A c \in running : ~ (c[1] = a /\ c[3] = TheLeader)
  BY <1>1 DEF LoneInv, LoneRun
<1> QED BY <1>2, <1>3 DEF RunsOn

\* A call is over and stored nothing.
LEMMA CallEnds ==
  ASSUME TypeInv, TypeInv', LoneInv, NEW a \in DOMAIN att, LogsLearn(a), NEW n \in Node, NEW u,
         att[a].pc \in Waits, att' = [att EXCEPT ![a] = u], CallOver(att[a], att[a].pc, u, n),
         u.accepted_id = 0,
         \/ n # TheLeader
         \/ att[a].pc # "success" /\ att[a].round \in Known(log'[TheLeader][att[a].key]),
         running' = running \/ (running' = running \cup {<<a, att[a].pc, n>>} /\ n # TheLeader),
         UNCHANGED <<leader, kv>>
  PROVE  LoneStep(a)
<1>1. LogGrows
  BY DEF LogsLearn
<1>2. LoneMove(a, u)
  BY <1>1, CallMovesOn
<1>3. RunsOn(a, u)
  BY CallRunsOn
<1>4. TheLeader \in Node
  BY TheLeaderIsNode DEF LoneInv
<1>5. Shows(a, u)
  BY <1>4, CallShows DEF Shows
<1> QED BY <1>2, <1>3, <1>5, StepShown

\* The proposer meets no accepted value, so it keeps its own.
LEMMA PromisedNothing ==
  ASSUME NEW t, GoodTask(t), t.pc = "propose", t.accepted_id = 0, NEW n,
         NEW e \in EntryType, e.a_server_id = 0
  PROVE  Promised(t, n, e).accepted_id = 0
<1> DEFINE w == [t EXCEPT
    !.todo = @ \ {n},
    !.promised = @ + 1,
    !.accepted_value = IF e.a_server_id > t.accepted_id THEN e.accepted_value ELSE @,
    !.accepted_id = IF e.a_server_id > @ THEN e.a_server_id ELSE @]
<1>1. t \in Task /\ ~ (e.a_server_id > t.accepted_id)
  BY DEF GoodTask
<1>2. w \in Task /\ w.pc = "propose" /\ w.accepted_id = 0 /\ SameRequest(t, w)
  <2> DEFINE rest == t.todo \ {n}
             count == t.promised + 1
  <2>1. rest \in SUBSET Node /\ count \in Nat
    BY <1>1 DEF Task
  <2>2. w = [t EXCEPT !.todo = rest, !.promised = count]
    BY <1>1 DEF Task
  <2> HIDE DEF rest, count, w
  <2> QED BY <1>1, <2>1, <2>2 DEF Task, SameRequest
<1>3. Promised(t, n, e) = Advance(w)
  BY DEF Promised
<1> HIDE DEF w
<1>4. GoodTask(w)
  BY <1>2 DEF GoodTask, SameRequest
<1> QED BY <1>2, <1>3, <1>4, AdvanceTask DEF SameChoice, Waits

\* A proposal is answered: whoever answers has accepted nothing at that round.
LEMMA ProposeAnsweredStep ==
  ASSUME TypeInv, TypeInv', LoneInv, NEW a \in DOMAIN att, NEW n \in Node, ProposeAnswered(a, n)
  PROVE  LoneStep(a)
<1> DEFINE t == att[a]
           e == EntryAt(log[n][t.key], t.round)
<1>1. t.pc = "propose" /\ HandlePropose(a, n) /\ UNCHANGED <<kv, leader, running>>
  BY DEF ProposeAnswered, Calls
<1>2. GoodTask(t) /\ t.key \in Key /\ t.round \in Round /\ t.accepted_id = 0
      /\ ~ Accepts(log[n][t.key], t.round)
  BY <1>1, LoneTypes DEF LoneInv, LoneTask, Asking
<1>3. Active(a) /\ t.pc \in Waits
  BY <1>1 DEF Active, Stage, Waits
<1>4. e \in EntryType /\ e.a_server_id = 0 /\ e.p_server_id = 0
  <2>1. log[n][t.key] \in [Round -> EntryType \cup {Absent}]
    BY <1>2 DEF TypeInv, LogInv, LogType
  <2>2. NewEntry \in EntryType /\ NewEntry.a_server_id = 0 /\ NewEntry.p_server_id = 0
    BY DEF NewEntry, EntryType, Entry
  <2>3. CASE log[n][t.key][t.round] = Absent
    BY <2>2, <2>3 DEF EntryAt
  <2>4. CASE log[n][t.key][t.round] # Absent
    <3>1. t.round \in Known(log[n][t.key])
      BY <1>2, <2>1, <2>4 DEF Known
    <3>2. e \in EntryType /\ e = log[n][t.key][t.round]
      BY <1>2, <2>1, <2>4 DEF EntryAt
    <3>3. ~ (e.a_server_id > 0)
      BY <1>2, <3>1, <3>2 DEF Accepts
    <3>4. e.p_server_id = 0 /\ e.a_server_id \in {0, 1}
      BY <3>2 DEF EntryType, Entry, ProposeId
    <3> QED BY <3>2, <3>3, <3>4
  <2> QED BY <2>3, <2>4
<1>5. att' = [att EXCEPT ![a] = Promised(t, n, e)]
  <2>1. ~ (e.p_server_id > ProposeId)
    BY <1>4 DEF ProposeId
  <2> QED BY <2>1 DEF ProposeAnswered
<1> HIDE DEF e
<1> DEFINE u == Promised(t, n, e)
<1>6. CallOver(t, "propose", u, n) /\ u.accepted_id = 0
  BY <1>1, <1>2, <1>4, PromisedOver, PromisedNothing
<1> HIDE DEF u, t
<1>7. LogsLearn(a) /\ att[a].round \in Known(log'[n][att[a].key])
  BY <1>1, <1>3, ProposeLearns
<1> QED BY <1>1, <1>3, <1>5, <1>6, <1>7, CallEnds DEF t, u

\* An answer to accept.
LEMMA AcceptAnsweredStep ==
  ASSUME TypeInv, TypeInv', LoneInv, NEW a \in DOMAIN att, NEW n \in Node, AcceptAnswered(a, n)
  PROVE  LoneStep(a)
<1> DEFINE u == Acked(att[a], n)
<1>1. att[a].pc = "accept" /\ HandleAccept(a, n) /\ UNCHANGED <<kv, leader, running>>
      /\ att' = [att EXCEPT ![a] = u]
  BY DEF AcceptAnswered, Calls
<1>2. GoodTask(att[a]) /\ att[a].accepted_id = 0
  BY LoneTypes DEF LoneInv, LoneTask
<1>3. Active(a) /\ att[a].pc \in Waits /\ att[a].pc \notin Asking /\ att[a].pc # "success"
  BY <1>1 DEF Active, Stage, Waits, Asking
<1>4. CallOver(att[a], "accept", u, n) /\ u.accepted_id = 0
  BY <1>1, <1>2, CallsOver, AckedTask DEF SameChoice
<1>5. LogsLearn(a) /\ att[a].round \in Known(log'[n][att[a].key])
  BY <1>1, <1>3, PastProposals, AcceptLearns
<1> HIDE DEF u
<1> QED BY <1>1, <1>3, <1>4, <1>5, CallEnds

\* A call that counts for nothing.
LEMMA CallPasses ==
  ASSUME TypeInv, TypeInv', LoneInv, NEW a \in DOMAIN att, LogsLearn(a), NEW n \in Node,
         att[a].pc \in Waits, att' = [att EXCEPT ![a] = Passed(@, n)], n # TheLeader,
         running' = running \/ running' = running \cup {<<a, att[a].pc, n>>},
         UNCHANGED <<leader, kv>>
  PROVE  LoneStep(a)
<1> DEFINE u == Passed(att[a], n)
<1>1. GoodTask(att[a]) /\ att[a].accepted_id = 0
  BY LoneTypes DEF LoneInv, LoneTask
<1>2. CallOver(att[a], att[a].pc, u, n) /\ u.accepted_id = 0
  BY <1>1, CallsOver, PassedTask DEF SameChoice
<1>3. att' = [att EXCEPT ![a] = u]
  OBVIOUS
<1> HIDE DEF u
<1> QED BY <1>2, <1>3, CallEnds

\* A replica that is down, a call that is lost, unanswered or answered too late: none of
\* them is the leader's call to itself.
LEMMA FailedStep ==
  ASSUME TypeInv, TypeInv', LoneInv, NEW a \in DOMAIN att, NEW n \in Node,
         Unreachable(a, n) \/ RequestLost(a, n) \/ ReplyLost(a, n) \/ TimedOut(a, n)
  PROVE  LoneStep(a)
<1>1. att' = [att EXCEPT ![a] = Passed(@, n)] /\ UNCHANGED <<leader, kv>>
  BY DEF Unreachable, RequestLost, ReplyLost, TimedOut
<1>2. att[a].node = TheLeader /\ <<TheLeader, TheLeader>> \notin Lossy
  BY LoneTypes DEF LoneInv, LoneLeader
<1>3. n # TheLeader
  BY <1>2 DEF Unreachable, RequestLost, ReplyLost, TimedOut, Fault, Calls
<1>4. att[a].pc \in Waits
  BY DEF Unreachable, RequestLost, ReplyLost, TimedOut, Calls, Waits
<1>5. CASE UNCHANGED log
  <2>1. running' = running \/ running' = running \cup {<<a, att[a].pc, n>>}
    BY DEF Unreachable, RequestLost, ReplyLost, TimedOut, Calls
  <2> QED BY <1>1, <1>3, <1>4, <1>5, <2>1, NothingLearnt, CallPasses
<1>6. CASE ReplyLost(a, n)
  <2>1. UNCHANGED running
    BY <1>6 DEF ReplyLost
  <2>2. (att[a].pc = "propose" /\ HandlePropose(a, n)) \/ (att[a].pc = "accept" /\ HandleAccept(a, n))
    BY <1>6 DEF ReplyLost, Calls
  <2>3. LogsLearn(a)
    <3>1. CASE att[a].pc = "propose" /\ HandlePropose(a, n)
      BY <1>3, <3>1, ProposeLearns
    <3>2. CASE att[a].pc = "accept" /\ HandleAccept(a, n)
      <4>1. Active(a) /\ att[a].pc \notin Asking
        BY <3>2 DEF Active, Stage, Asking
      <4> QED BY <3>2, <4>1, PastProposals, AcceptLearns
    <3> QED BY <2>2, <3>1, <3>2
  <2> QED BY <1>1, <1>3, <1>4, <2>1, <2>3, CallPasses
<1> QED BY <1>5, <1>6 DEF Unreachable, RequestLost, ReplyLost, TimedOut

\* success is called: on the leader, where no later round is known, it goes on to store.
LEMMA SuccessCalledStep ==
  ASSUME TypeInv, TypeInv', LoneInv, NEW a \in DOMAIN att, NEW n \in Node, SuccessCalled(a, n)
  PROVE  LoneStep(a)
<1>1. att[a].pc = "success" /\ LogSuccess(a, n) /\ UNCHANGED <<kv, leader>> /\ IsNext(att[a], n)
  BY DEF SuccessCalled, Calls
<1>2. GoodTask(att[a]) /\ att[a].accepted_id = 0 /\ att[a].key \in DataKey /\ att[a].round \in Nat
      /\ TheLeader \in Node
  BY LoneTypes DEF LoneInv, LoneTask, GoodTask, Task
<1>3. Active(a) /\ att[a].pc \in Waits /\ att[a].pc \notin Asking
  BY <1>1 DEF Active, Stage, Waits, Asking
<1>4. Past(a) /\ LogsLearn(a)
  BY <1>1, <1>3, PastProposals, AcceptLearns
<1>5. CASE PassesTest(a, n)
  <2> DEFINE u == Waiting(att[a])
  <2>1. GoodTask(u) /\ SameRequest(att[a], u) /\ u.accepted_id = 0
    BY <1>2, StoringTask DEF SameChoice
  <2>2. u.pc = "storing" /\ u.todo = att[a].todo
    BY <1>2 DEF Waiting, GoodTask, Task
  <2>3. att' = [att EXCEPT ![a] = u] /\ running' = running \cup {<<a, "store", n>>}
    BY <1>5 DEF SuccessCalled
  <2> HIDE DEF u
  <2>4. IsNext(u, n) /\ \A m \in Node : IsNext(u, m) => m = n
    BY <1>1, <2>2 DEF IsNext, Node
  <2>5. att[a].round \in Known(log'[TheLeader][att[a].key])
    BY <1>2, <1>4 DEF Past, LogsLearn, LogGrows, LeaderLog, Key
  <2>6. LoneMove(a, u)
    BY <1>2, <1>3, <2>1, <2>2, <2>3, <2>4, <2>5 DEF LoneMove, SameRequest, Active, Asking
  <2>7. RunsOn(a, u)
    <3>1. \A c \in running : ~ (c[1] = a /\ c[3] = TheLeader)
      BY <1>1 DEF LoneInv, LoneRun
    <3>2. \A c \in running' \ running : c = <<a, "store", n>>
      BY <2>3
    <3> QED BY <1>4, <2>2, <2>3, <2>4, <3>1, <3>2 DEF RunsOn
  <2>8. StateOf(u) = StateOf(att[a])
    BY <1>1, <2>2 DEF StateOf
  <2> QED BY <1>1, <1>4, <2>6, <2>7, <2>8, StepShown DEF Shows
<1>6. CASE ~ PassesTest(a, n)
  <2>1. n # TheLeader
    <3> SUFFICES ASSUME n = TheLeader PROVE FALSE
      OBVIOUS
    <3>1. Known(log'[n][att[a].key]) \subseteq LeaderLog(att[a].key) \cup {att[a].round}
      BY <1>2, <1>4 DEF LogsLearn, LeaderLog
    <3>2. \A s \in LeaderLog(att[a].key) : s <= att[a].round
      BY <1>3 DEF LoneInv, LoneTask
    <3>3. \A s \in LeaderLog(att[a].key) : s \in Nat
      BY <1>2, LeaderRounds
    <3> QED BY <1>2, <1>6, <3>1, <3>2, <3>3 DEF PassesTest, Outdated
  <2>2. att' = [att EXCEPT ![a] = Passed(@, n)] /\ UNCHANGED running
    BY <1>6 DEF SuccessCalled
  <2> QED BY <1>1, <1>3, <1>4, <2>1, <2>2, CallPasses
<1> QED BY <1>5, <1>6

\* The proposer does not wait for the end of a store, which is not its own.
LEMMA StoreTimedOutStep ==
  ASSUME TypeInv, TypeInv', LoneInv, NEW a \in DOMAIN att, NEW n \in Node, StoreTimedOut(a, n)
  PROVE  LoneStep(a)
<1> DEFINE u == Resumed(att[a], n)
<1>1. att[a].pc = "storing" /\ IsNext(att[a], n) /\ att' = [att EXCEPT ![a] = u]
      /\ UNCHANGED <<log, kv, leader, running>>
  BY DEF StoreTimedOut, Calls
<1>2. GoodTask(att[a]) /\ att[a].accepted_id = 0 /\ att[a].node = TheLeader /\ TheLeader \in Node
      /\ <<TheLeader, TheLeader>> \notin Lossy
  BY LoneTypes DEF LoneInv, LoneTask, LoneLeader, GoodTask, Task
<1>3. n # TheLeader
  BY <1>1, <1>2 DEF StoreTimedOut, Fault, LoneInv, LoneTask
<1>4. CallOver(att[a], "success", u, n) /\ u.accepted_id = 0
  BY <1>2, CallsOver, StoringTask DEF SameChoice
<1> HIDE DEF u
<1>5. LogsLearn(a) /\ LogGrows
  BY <1>1, NothingLearnt DEF LogsLearn
<1>6. LoneMove(a, u)
  BY <1>1, <1>3, <1>4, <1>5, CallMovesOn DEF Waits
<1>7. ~ IsNext(att[a], TheLeader)
  BY <1>1, <1>2, <1>3 DEF IsNext, Node
<1>8. RunsOn(a, u)
  BY <1>1, <1>7 DEF RunsOn, LoneInv, LoneRun
<1>9. Shows(a, u)
  BY <1>1, <1>2, <1>3, <1>4, CallShows DEF Shows, Waits
<1> QED BY <1>1, <1>5, <1>6, <1>8, <1>9, StepShown

-----------------------------------------------------------------------------
(* The handlers that run on their own.                                     *)

\* An attempt that does not change.
LEMMA StillMoves ==
  ASSUME TypeInv, LoneInv, LogGrows, NEW a \in DOMAIN att, UNCHANGED att,
         <<a, "store", TheLeader>> \in running => <<a, "store", TheLeader>> \in running'
  PROVE  LoneMove(a, att[a])
<1>1. att' = [att EXCEPT ![a] = att[a]]
  BY DEF TypeInv, AttInv
<1>2. att[a].key \in Key /\ TheLeader \in Node /\ LoneTask(a)
  BY LoneTypes DEF GoodTask, Task, LoneInv
<1> QED BY <1>1, <1>2 DEF LoneMove, LoneTask, Proposed, LeaderLog, LogGrows, SameRequest

\* A handler whose proposer has gone on: it is not on the leader.
LEMMA LateStep ==
  ASSUME TypeInv, TypeInv', LoneInv, NEW a \in DOMAIN att, NEW n \in Node,
         LatePropose(a, n) \/ LateAccept(a, n) \/ LateSuccess(a, n)
  PROVE  LoneStep(a)
<1>1. UNCHANGED <<att, kv, leader>>
  BY DEF LatePropose, LateAccept, LateSuccess
<1>2. PICK m \in {"propose", "accept", "success"} :
        /\ <<a, m, n>> \in running
        /\ \/ running' = running \ {<<a, m, n>>}
           \/ m # "propose" /\ running' = (running \ {<<a, m, n>>}) \cup {<<a, "store", n>>}
        /\ IF m = "propose" THEN HandlePropose(a, n) ELSE HandleAccept(a, n) \/ LogSuccess(a, n)
  <2>1. CASE LatePropose(a, n)
    BY <2>1 DEF LatePropose
  <2>2. CASE LateAccept(a, n)
    BY <2>2 DEF LateAccept
  <2>3. CASE LateSuccess(a, n)
    BY <2>3 DEF LateSuccess
  <2> QED BY <2>1, <2>2, <2>3
<1>3. LoneRun(<<a, m, n>>)
  BY <1>2 DEF LoneInv
<1>4. n # TheLeader /\ (m # "propose" => Past(a))
  BY <1>3 DEF LoneRun
<1>5. LogsLearn(a) /\ LogGrows
  BY <1>2, <1>4, ProposeLearns, AcceptLearns DEF LogsLearn
<1>6. LoneMove(a, att[a])
  BY <1>1, <1>2, <1>4, <1>5, StillMoves
<1>7. RunsOn(a, att[a])
  <2>1. \A c \in running' \ running : c = <<a, "store", n>> /\ m # "propose"
    BY <1>2
  <2>2. \A c \in running \ running' : c[1] = a
    BY <1>2
  <2>3. \A c \in running : c[1] = a /\ c[3] = TheLeader =>
          att[a].pc = "storing" /\ IsNext(att[a], TheLeader)
    BY DEF LoneInv, LoneRun
  <2> QED BY <1>4, <2>1, <2>2, <2>3 DEF RunsOn
<1>8. Shows(a, att[a])
  BY <1>1 DEF Shows
<1> QED BY <1>1, <1>5, <1>6, <1>7, <1>8, StepShown

\* The rest of a success: on the leader it is the moment the write takes effect.
LEMMA StoreStep ==
  ASSUME TypeInv, TypeInv', LoneInv, NEW a \in DOMAIN att, NEW n \in Node, Store(a, n)
  PROVE  LoneStep(a)
<1> DEFINE u == Resumed(att[a], n)
<1>1. /\ <<a, "store", n>> \in running /\ running' = running \ {<<a, "store", n>>}
      /\ att' = [att EXCEPT ![a] = IF att[a].pc = "storing" /\ IsNext(att[a], n) THEN u ELSE att[a]]
      /\ UNCHANGED log
  BY DEF Store
<1>2. /\ GoodTask(att[a]) /\ att[a].accepted_id = 0 /\ TheLeader \in Node
      /\ att[a].key \in DataKey /\ att[a].key # LeaderKey
  BY LoneTypes DEF LoneInv, LoneTask, GoodTask, Task
<1>3. LoneRun(<<a, "store", n>>)
  BY <1>1 DEF LoneInv
<1>4. Past(a) /\ (n = TheLeader => att[a].pc = "storing" /\ IsNext(att[a], TheLeader))
  BY <1>3 DEF LoneRun
<1>5. LogsLearn(a) /\ LogGrows
  BY <1>1, NothingLearnt DEF LogsLearn
<1>6. kv' = [kv EXCEPT ![n][att[a].key] = att[a].value] /\ UNCHANGED leader
  <2>1. Chosen(att[a]) = att[a].value
    BY <1>2 DEF Chosen
  <2> QED BY <1>2, <2>1 DEF Store, Assign
<1>7. CallOver(att[a], "success", u, n) /\ u.accepted_id = 0
  BY <1>2, CallsOver, StoringTask DEF SameChoice
<1>8. kv \in [Node -> [DataKey -> Payload \cup {Nothing}]]
  BY DEF TypeInv, RestInv
<1> HIDE DEF u
<1>9. CASE n = TheLeader
  <2>1. att' = [att EXCEPT ![a] = u] /\ att[a].pc = "storing" /\ TheLeader \in att[a].todo
    BY <1>1, <1>4, <1>9 DEF IsNext
  <2>2. att[a].round \in Known(log'[TheLeader][att[a].key])
    BY <1>1, <1>4 DEF Past, LeaderLog
  <2>3. LoneMove(a, u)
    BY <1>5, <1>7, <1>9, <2>1, <2>2, CallMovesOn DEF Waits
  <2>4. \A c \in running : c[1] = a /\ c[3] = TheLeader => c = <<a, "store", n>>
    BY <1>9 DEF LoneInv, LoneRun, TypeInv, RestInv
  <2>5. RunsOn(a, u)
    BY <1>1, <2>4 DEF RunsOn
  <2>6. StateOf(att[a]) = "pending"
    BY <2>1 DEF StateOf
  <2>7. StateOf(u) = "applied"
    <3>1. u.pc = "return" \/ (u.pc = "success" /\ TheLeader \notin u.todo)
      BY <1>7, <1>9 DEF CallOver
    <3> QED BY <3>1 DEF StateOf
  <2>8. kv'[TheLeader] = [kv[TheLeader] EXCEPT ![att[a].key] = att[a].value]
    BY <1>2, <1>6, <1>8, <1>9
  <2>9. ver'[TheLeader][att[a].key] = att[a].round
    <3>1. ver' = [ver EXCEPT ![TheLeader][att[a].key] = att[a].round]
      BY <1>9 DEF Store, Assign
    <3> QED BY <1>2, <3>1 DEF TypeInv, RestInv, Key
  <2> QED BY <1>5, <1>6, <2>3, <2>5, <2>6, <2>7, <2>8, <2>9, StepShown DEF Shows
<1>10. CASE n # TheLeader
  <2>1. kv'[TheLeader] = kv[TheLeader]
    BY <1>2, <1>6, <1>8, <1>10
  <2>2. CASE att[a].pc = "storing" /\ IsNext(att[a], n)
    <3>1. att' = [att EXCEPT ![a] = u]
      BY <1>1, <2>2
    <3>2. LoneMove(a, u)
      BY <1>5, <1>7, <1>10, <2>2, <3>1, CallMovesOn DEF Waits
    <3>3. ~ IsNext(att[a], TheLeader)
      BY <1>2, <1>10, <2>2 DEF IsNext, Node
    <3>4. RunsOn(a, u)
      BY <1>1, <3>3 DEF RunsOn, LoneInv, LoneRun
    <3>5. Shows(a, u)
      BY <1>2, <1>7, <1>10, <2>1, <2>2, CallShows DEF Shows, Waits
    <3> QED BY <1>5, <1>6, <3>2, <3>4, <3>5, StepShown
  <2>3. CASE ~ (att[a].pc = "storing" /\ IsNext(att[a], n))
    <3>1. UNCHANGED att
      BY <1>1, <2>3 DEF TypeInv, AttInv
    <3>2. <<a, "store", TheLeader>> \in running => <<a, "store", TheLeader>> \in running'
      BY <1>1, <1>10
    <3>3. LoneMove(a, att[a])
      BY <1>5, <3>1, <3>2, StillMoves
    <3>4. RunsOn(a, att[a])
      BY <1>1 DEF RunsOn, LoneInv, LoneRun
    <3>5. Shows(a, att[a])
      BY <2>1 DEF Shows
    <3> QED BY <1>5, <1>6, <3>3, <3>4, <3>5, StepShown
  <2> QED BY <2>2, <2>3
<1> QED BY <1>9, <1>10

-----------------------------------------------------------------------------
(* The beginning and the end of an attempt.                                *)

\* The loop of pings: the leader answers itself.
LEMMA PingStep ==
  ASSUME TypeInv, TypeInv', LoneInv, NEW a \in DOMAIN att, Ping(a)
  PROVE  LoneStep(a)
<1> DEFINE t == att[a]
<1>1. GoodTask(t) /\ t \in Task /\ t.node = TheLeader /\ t.pc = "ping" /\ up[TheLeader]
      /\ TheLeader \in Node /\ t.accepted_id = 0
  BY LoneTypes DEF Ping, GoodTask, Task, LoneInv, LoneTask
<1>2. UNCHANGED <<log, kv, leader, running>>
  BY DEF Ping
<1>3. PICK live \in SUBSET Node : /\ TheLeader \in live
                    /\ \/ att' = [att EXCEPT ![a] = [t EXCEPT !.pc = "propose", !.live = live, !.todo = live]]
                       \/ att' = [att EXCEPT ![a] = [t EXCEPT !.pc = "fail"]]
  <2>1. PICK missed \in SUBSET {n \in Node : up[n] /\ <<t.node, n>> \in Lossy} :
          LET live == {n \in Node : up[n]} \ missed IN
          att' = [att EXCEPT ![a] =
               IF Enough(Cardinality(live), NumReplicas)
                 THEN [t EXCEPT !.pc = "propose", !.live = live, !.todo = live]
                 ELSE [t EXCEPT !.pc = "fail"]]
    BY DEF Ping
  <2>2. TheLeader \notin missed
    BY <1>1 DEF LoneInv, LoneLeader
  <2> QED BY <1>1, <2>1, <2>2
<1> DEFINE u == [t EXCEPT !.pc = "propose", !.live = live, !.todo = live]
           f == [t EXCEPT !.pc = "fail"]
<1>4. SameRequest(t, u) /\ u.pc = "propose" /\ u.todo = live /\ u.accepted_id = 0
  BY <1>1 DEF Task, SameRequest
<1>5. SameRequest(t, f) /\ f.pc = "fail" /\ f.accepted_id = 0
  BY <1>1 DEF Task, SameRequest
<1>6. att' = [att EXCEPT ![a] = u] \/ att' = [att EXCEPT ![a] = f]
  BY <1>3
<1> HIDE DEF t, u, f
<1>7. LogsLearn(a)
  BY <1>2, NothingLearnt
<1>8. \A w : RunsOn(a, w)
  <2>1. \A c \in running : ~ (c[1] = a /\ c[3] = TheLeader)
    BY <1>1 DEF LoneInv, LoneRun, t
  <2> QED BY <1>2, <2>1 DEF RunsOn
<1>9. CASE att' = [att EXCEPT ![a] = u]
  <2>1. LoneMove(a, u)
    BY <1>1, <1>3, <1>4, <1>9 DEF LoneMove, Stage, Asking, t
  <2>2. Shows(a, u)
    BY <1>1, <1>2, <1>4 DEF Shows, StateOf, t
  <2> QED BY <1>2, <1>7, <1>8, <2>1, <2>2, StepShown
<1>10. CASE att' = [att EXCEPT ![a] = f]
  <2>1. LoneMove(a, f)
    BY <1>5, <1>10 DEF LoneMove, Stage, Asking, t
  <2>2. Shows(a, f)
    BY <1>1, <1>2, <1>5 DEF Shows, StateOf, t
  <2> QED BY <1>2, <1>7, <1>8, <2>1, <2>2, StepShown
<1> QED BY <1>6, <1>9, <1>10

\* AttemptConsensus returns OK.
LEMMA ReturnStep ==
  ASSUME TypeInv, TypeInv', LoneInv, NEW a \in DOMAIN att, Return(a)
  PROVE  LoneStep(a)
<1> DEFINE u == [att[a] EXCEPT !.pc = "ok"]
<1>1. att[a].pc = "return" /\ att' = [att EXCEPT ![a] = u] /\ UNCHANGED <<log, running>>
  BY DEF Return
<1>2. GoodTask(att[a]) /\ att[a].accepted_id = 0 /\ att[a].by = "set" /\ LoneTask(a)
  BY LoneTypes DEF LoneInv, LoneTask
<1>3. UNCHANGED <<kv, leader>>
  BY <1>2 DEF Return
<1>4. SameRequest(att[a], u) /\ u.pc = "ok" /\ u.accepted_id = 0
  BY <1>2 DEF GoodTask, Task, SameRequest
<1> HIDE DEF u
<1>5. u.round \in Known(log'[TheLeader][u.key])
  BY <1>1, <1>2, <1>4 DEF LoneTask, Proposed, LeaderLog, SameRequest
<1>6. LoneMove(a, u)
  BY <1>1, <1>4, <1>5 DEF LoneMove, Stage, Asking
<1>7. RunsOn(a, u)
  BY <1>1 DEF RunsOn, LoneInv, LoneRun
<1>8. Shows(a, u)
  BY <1>1, <1>3, <1>4 DEF Shows, StateOf
<1> QED BY <1>1, <1>3, <1>6, <1>7, <1>8, NothingLearnt, StepShown

\* The round of a new attempt of the leader is the next of its log.
LEMMA NextRound ==
  ASSUME TypeInv, LoneInv, NEW k \in DataKey, NEW r, r = NumKnown(log[TheLeader][k])
  PROVE  /\ r \in Nat /\ 0 .. r - 1 \subseteq LeaderLog(k)
         /\ \A s \in LeaderLog(k) : s < r
<1> DEFINE K == LeaderLog(k)
<1>1. K \subseteq Nat /\ IsFiniteSet(K)
  BY LeaderRounds
<1>2. r = Cardinality(K)
  BY DEF NumKnown, LeaderLog
<1>3. \A s \in K : 0 .. s \subseteq K
  BY DEF LoneInv
<1> HIDE DEF K
<1>4. Cardinality(K) \in Nat /\ 0 .. Cardinality(K) - 1 \subseteq K /\ \A s \in K : s < Cardinality(K)
  BY <1>1, <1>3, CountIsNext
<1> QED BY <1>2, <1>4 DEF K

\* A sequence with one more element at its end.
LEMMA AppendIs ==
  ASSUME NEW n \in Nat, NEW S, NEW f \in [1 .. n -> S], NEW g \in [1 .. n + 1 -> S],
         NEW w \in S, \A i \in 1 .. n + 1 : g[i] = IF i = n + 1 THEN w ELSE f[i]
  PROVE  g = Append(f, w)
<1>1. f \in Seq(S) /\ Len(f) = n
  OBVIOUS
<1>2. g \in Seq(S) /\ Len(g) = n + 1
  OBVIOUS
<1>3. Append(f, w) \in Seq(S) /\ Len(Append(f, w)) = n + 1
      /\ \A i \in 1 .. n + 1 : Append(f, w)[i] = IF i = n + 1 THEN w ELSE f[i]
  BY <1>1
<1> QED BY <1>2, <1>3, SeqEqual

\* Clients write keys of the store.
LEMMA ClientsWrite ==
  ASSUME LoneInv
  PROVE  ClientKey \subseteq DataKey
BY ConstantsAssumption DEF LoneInv, LoneLeader, Key

\* A write is requested.
LEMMA RequestStep ==
  ASSUME TypeInv, LoneInv, NEW n \in Node, NEW k \in DataKey, NEW v \in Value, Set(n, k, v)
  PROVE  LoneInv' /\ RegisterStep
<1> DEFINE r == NumKnown(log[n][k])
           t == [pc |-> "ping", by |-> "set", node |-> n, key |-> k, value |-> v, round |-> r, live |-> {},
                 todo |-> {}, promised |-> 0, accepted_id |-> 0, accepted_value |-> Nothing,
                 acked |-> {}]
           A == {a \in DOMAIN att : Active(a) /\ att[a].key = k}
<1>1. n = TheLeader
  BY ConstantsAssumption DEF Set, LoneInv, Payload
<1>2. att' = Append(att, t) /\ UNCHANGED <<log, kv, leader, running>> /\ Cardinality(A) < MaxRunning
  BY DEF Set, Begin
<1>3. t.node = n /\ t.key = k /\ t.value = v /\ t.pc = "ping" /\ t.accepted_id = 0 /\ t.round = r
  OBVIOUS
<1>4. r \in Nat /\ 0 .. r - 1 \subseteq LeaderLog(k) /\ \A s \in LeaderLog(k) : s < r
  BY <1>1, NextRound
<1> HIDE DEF t, r
<1>5. A = {}
  <2>1. IsFiniteSet(DOMAIN att)
    BY FS_Interval DEF TypeInv, AttInv
  <2>2. IsFiniteSet(A)
    BY <2>1, FS_Subset
  <2>3. Cardinality(A) \in Nat
    BY <2>2, FS_CardinalityType
  <2>4. MaxRunning <= 1 /\ MaxRunning \in Nat
    BY ConstantsAssumption DEF LoneInv, LoneLeader
  <2>5. Cardinality(A) = 0
    BY <1>2, <2>3, <2>4
  <2> QED BY <2>2, <2>5, FS_EmptySet
<1>6. PICK e \in Nat : /\ e = Len(att) + 1 /\ Len(att) \in Nat
                      /\ DOMAIN att = 1 .. Len(att) /\ DOMAIN att' = 1 .. e
                      /\ att'[e] = t /\ \A a \in DOMAIN att : att'[a] = att[a]
  <2>1. Len(att) \in Nat /\ DOMAIN att = 1 .. Len(att) /\ DOMAIN att' = 1 .. Len(att) + 1
        /\ att'[Len(att) + 1] = t /\ \A a \in DOMAIN att : att'[a] = att[a]
    BY <1>2 DEF TypeInv, AttInv
  <2> QED BY <2>1
<1>7. \A a \in DOMAIN att : a \in Nat /\ a < e /\ a \in DOMAIN att'
  BY <1>6
<1>8. e \in DOMAIN att' /\ (\A a \in DOMAIN att' : a \in DOMAIN att \/ a = e)
  BY <1>6
<1>9. LeaderLog(k) \subseteq Nat
  BY LeaderRounds
<1>10. LoneTask(e)'
  <2>1. \A m \in Node : ~ Accepts(log[m][k], r)
    <3> SUFFICES ASSUME NEW m \in Node, Accepts(log[m][k], r) PROVE FALSE
      OBVIOUS
    <3>1. r \in Round
      <4>1. log[m][k] \in LogType
        BY DEF TypeInv, LogInv, Key
      <4> QED BY <4>1 DEF Accepts, Known, LogType
    <3>2. r \in LeaderLog(k)
      BY <3>1 DEF LoneInv
    <3> QED BY <1>4, <3>2
  <2>2. \A s \in LeaderLog(k) : s <= r
    BY <1>4, <1>9
  <2>3. \A b \in DOMAIN att' : b <= e
    BY <1>6, <1>7, <1>8
  <2> QED BY <1>1, <1>2, <1>3, <1>4, <1>6, <2>1, <2>2, <2>3 DEF LoneTask, LeaderLog
<1>11. ASSUME NEW a \in DOMAIN att PROVE LoneTask(a)'
  <2>1. att'[a] = att[a] /\ LoneTask(a)
    BY <1>6 DEF LoneInv
  <2>2. Active(a) => att[a].key # k
    BY <1>5
  <2>3. Active(a) => \A b \in DOMAIN att' : att'[b].key = att[a].key => b <= a
    BY <1>3, <1>6, <1>8, <2>1, <2>2 DEF LoneTask
  <2> QED BY <1>2, <2>1, <2>3 DEF LoneTask, Active, Proposed, LeaderLog
<1>12. ASSUME NEW c \in running' PROVE LoneRun(c)'
  <2>1. c \in running /\ c[1] \in DOMAIN att /\ LoneRun(c)
    BY <1>2, <1>12 DEF TypeInv, RestInv, LoneInv
  <2>2. att'[c[1]] = att[c[1]]
    BY <1>6, <2>1
  <2>3. ASSUME Past(c[1]) PROVE Past(c[1])'
    <3>1. att[c[1]].round \in LeaderLog(att[c[1]].key)
      BY <2>3 DEF Past
    <3>2. \A b \in DOMAIN att' : Active(b)' /\ att'[b].key = att[c[1]].key =>
            (b = c[1] /\ att[c[1]].pc \notin Asking) \/ att[c[1]].round < att'[b].round
      <4>1. CASE att[c[1]].key = k
        <5>1. att[c[1]].round < r
          BY <1>4, <3>1, <4>1
        <5> QED BY <1>3, <1>6, <1>8, <2>3, <5>1 DEF Past, Active
      <4>2. CASE att[c[1]].key # k
        BY <1>3, <1>6, <1>8, <2>3, <4>2 DEF Past, Active
      <4> QED BY <4>1, <4>2
    <3> QED BY <1>2, <2>2, <3>1, <3>2 DEF Past, LeaderLog
  <2> QED BY <2>1, <2>2, <2>3 DEF LoneRun
<1>13. LoneInv'
  <2>1. \A a \in DOMAIN att' : LoneTask(a)'
    BY <1>8, <1>10, <1>11
  <2> QED BY <1>2, <1>12, <2>1 DEF LoneInv, LoneLeader, LeaderLog
<1>14. RegisterStep
  <2> PICK w : w = [key |-> k, value |-> v, state |-> "pending"]
    OBVIOUS
  <2>1. ClientWrites'[e] = w
    <3>1. StateOf(t) = "pending"
      BY <1>3 DEF StateOf
    <3> QED BY <1>3, <1>6, <1>8, <3>1 DEF ClientWrites
  <2>2. \A a \in DOMAIN att : ClientWrites'[a] = ClientWrites[a]
    BY <1>6, <1>7 DEF ClientWrites
  <2>3. \A a \in 1 .. Len(att) + 1 : ClientWrites'[a] = IF a = Len(att) + 1 THEN w ELSE ClientWrites[a]
    BY <1>6, <1>8, <2>1, <2>2
  <2>4. PICK S : S = {ClientWrites'[a] : a \in 1 .. Len(att) + 1}
    OBVIOUS
  <2>5. ClientWrites' \in [1 .. Len(att) + 1 -> S]
    <3>1. \A a \in 1 .. Len(att) + 1 : ClientWrites'[a] \in S
      BY <2>4
    <3> QED BY <1>6, <3>1 DEF ClientWrites
  <2>6. ClientWrites \in [1 .. Len(att) -> S] /\ w \in S
    <3>1. \A a \in 1 .. Len(att) : ClientWrites[a] = ClientWrites'[a] /\ a \in 1 .. Len(att) + 1
      BY <1>6, <2>2
    <3>2. w = ClientWrites'[Len(att) + 1] /\ Len(att) + 1 \in 1 .. Len(att) + 1
      BY <1>6, <2>1
    <3>3. \A a \in 1 .. Len(att) : ClientWrites[a] \in S
      BY <2>4, <3>1
    <3> QED BY <1>6, <2>4, <3>2, <3>3 DEF ClientWrites
  <2>7. PICK g, f, m : g = ClientWrites' /\ f = ClientWrites /\ m = Len(att)
    OBVIOUS
  <2>8. m \in Nat /\ f \in [1 .. m -> S] /\ g \in [1 .. m + 1 -> S]
        /\ \A a \in 1 .. m + 1 : g[a] = IF a = m + 1 THEN w ELSE f[a]
    BY <1>6, <2>3, <2>5, <2>6, <2>7
  <2>9. g = Append(f, w)
    BY <2>6, <2>8, AppendIs
  <2> QED BY <1>2, <2>7, <2>9 DEF RegisterStep, Register!Next, Register!Request
<1> QED BY <1>13, <1>14

\* A replica stops.  If it is the leader, nothing is under way any more.
LEMMA CrashStep ==
  ASSUME TypeInv, TypeInv', LoneInv, NEW n \in Node, Crash(n)
  PROVE  LoneInv' /\ RegisterStep
<1>1. UNCHANGED <<log, kv, leader>> /\ running' = {c \in running : c[3] # n}
  BY DEF Crash
<1>2. \A a \in DOMAIN att : LoneTask(a) /\ GoodTask(att[a]) /\ att[a].node = TheLeader
  BY LoneTypes DEF LoneInv
<1>3. CASE n # TheLeader
  <2>1. UNCHANGED att
    <3>1. att' = [a \in DOMAIN att |-> att[a]]
      BY <1>2, <1>3 DEF Crash
    <3> QED BY <3>1 DEF TypeInv, AttInv
  <2>2. \A a \in DOMAIN att : LoneTask(a)'
    BY <1>1, <1>2, <1>3, <2>1 DEF LoneTask, Active, Proposed, LeaderLog
  <2>3. \A c \in running' : LoneRun(c)'
    BY <1>1, <2>1 DEF LoneInv, LoneRun, Past, Active, LeaderLog
  <2>4. LoneInv'
    BY <1>1, <2>1, <2>2, <2>3 DEF LoneInv, LoneLeader, LeaderLog
  <2>5. ClientWrites' = ClientWrites
    BY <2>1 DEF ClientWrites, StateOf
  <2> QED BY <1>1, <2>4, <2>5 DEF RegisterStep
<1>4. CASE n = TheLeader
  <2> DEFINE dead(a) == [att[a] EXCEPT !.pc = "dead", !.live = {}]
  <2>1. \A a \in DOMAIN att : /\ SameRequest(att[a], dead(a)) /\ dead(a).pc = "dead"
                              /\ dead(a).accepted_id = att[a].accepted_id
    BY <1>2 DEF GoodTask, Task, SameRequest
  <2>2. DOMAIN att' = DOMAIN att
        /\ \A a \in DOMAIN att : att'[a] = IF Active(a) THEN dead(a) ELSE att[a]
    BY <1>2, <1>4 DEF Crash
  <2> HIDE DEF dead
  <2>3. \A a \in DOMAIN att : /\ SameRequest(att[a], att'[a])
                              /\ att'[a].accepted_id = att[a].accepted_id
                              /\ ~ Active(a)'
                              /\ att'[a].pc = IF Active(a) THEN "dead" ELSE att[a].pc
    BY <2>1, <2>2 DEF SameRequest, Active, Stage
  <2>4. \A a \in DOMAIN att : LoneTask(a)'
    <3> SUFFICES ASSUME NEW a \in DOMAIN att PROVE LoneTask(a)'
      OBVIOUS
    <3>1. att'[a].pc \notin Stage
      BY <2>3 DEF Active
    <3>2. att'[a].pc \notin {"ping", "fail", "dead"} => Proposed(att[a])'
      BY <1>1, <1>2, <2>3, <3>1 DEF LoneTask, Proposed, SameRequest, LeaderLog, Stage
    <3> QED BY <1>1, <1>2, <2>3, <3>1, <3>2 DEF LoneTask, SameRequest, LeaderLog, Stage, Asking
  <2>5. \A c \in running' : LoneRun(c)'
    <3> SUFFICES ASSUME NEW c \in running' PROVE LoneRun(c)'
      OBVIOUS
    <3>1. c \in running /\ c[3] # TheLeader /\ c[1] \in DOMAIN att /\ LoneRun(c)
      BY <1>1, <1>4 DEF TypeInv, RestInv, LoneInv
    <3>2. Past(c[1]) => Past(c[1])'
      BY <1>1, <2>2, <2>3, <3>1 DEF Past, SameRequest, LeaderLog
    <3> QED BY <3>1, <3>2 DEF LoneRun
  <2>6. LoneInv'
    BY <1>1, <2>2, <2>4, <2>5 DEF LoneInv, LoneLeader, LeaderLog
  <2>7. \A a \in DOMAIN att :
          /\ StateOf(att[a]) \in {"pending", "applied"} <=> Active(a)
          /\ StateOf(att'[a]) = IF Active(a) THEN "unknown" ELSE StateOf(att[a])
    <3> SUFFICES ASSUME NEW a \in DOMAIN att
                 PROVE  /\ StateOf(att[a]) \in {"pending", "applied"} <=> Active(a)
                        /\ StateOf(att'[a]) = IF Active(a) THEN "unknown" ELSE StateOf(att[a])
      OBVIOUS
    <3>1. att[a].pc \in Stage \cup Ended
      BY <1>2 DEF GoodTask, Task
    <3>2. StateOf(att[a]) \in {"pending", "applied"} <=> Active(a)
      BY <3>1 DEF StateOf, Active, Stage, Ended
    <3>3. Active(a) => StateOf(att'[a]) = "unknown"
      BY <2>3 DEF StateOf
    <3>4. ~ Active(a) => att'[a] = att[a]
      BY <2>2
    <3> QED BY <3>2, <3>3, <3>4
  <2>8. ClientWrites' = [a \in DOMAIN ClientWrites |->
                     IF ClientWrites[a].state \in {"pending", "applied"}
                       THEN [ClientWrites[a] EXCEPT !.state = "unknown"] ELSE ClientWrites[a]]
    <3>1. DOMAIN ClientWrites = DOMAIN att /\ DOMAIN ClientWrites' = DOMAIN att
      BY <2>2 DEF ClientWrites
    <3>2. \A a \in DOMAIN att :
            /\ ClientWrites[a] = [key |-> att[a].key, value |-> att[a].value, state |-> StateOf(att[a])]
            /\ ClientWrites'[a] = [key |-> att[a].key, value |-> att[a].value,
                             state |-> IF Active(a) THEN "unknown" ELSE StateOf(att[a])]
      BY <2>2, <2>3, <2>7 DEF ClientWrites, SameRequest
    <3>3. \A a \in DOMAIN att : ClientWrites'[a] =
            IF ClientWrites[a].state \in {"pending", "applied"}
              THEN [ClientWrites[a] EXCEPT !.state = "unknown"] ELSE ClientWrites[a]
      <4> SUFFICES ASSUME NEW a \in DOMAIN att
                   PROVE  ClientWrites'[a] =
                            IF ClientWrites[a].state \in {"pending", "applied"}
                              THEN [ClientWrites[a] EXCEPT !.state = "unknown"] ELSE ClientWrites[a]
        OBVIOUS
      <4>1. ClientWrites[a].state \in {"pending", "applied"} <=> Active(a)
        <5>1. ClientWrites[a].state = StateOf(att[a])
          BY DEF ClientWrites
        <5> QED BY <2>7, <5>1, Zenon
      <4>2. PICK x, y, s : ClientWrites[a] = [key |-> x, value |-> y, state |-> s] /\ x = att[a].key
                           /\ y = att[a].value /\ s = StateOf(att[a])
        BY <3>2
      <4>3. [[key |-> x, value |-> y, state |-> s] EXCEPT !.state = "unknown"]
              = [key |-> x, value |-> y, state |-> "unknown"]
        OBVIOUS
      <4>4. ClientWrites'[a] = [key |-> x, value |-> y, state |-> IF Active(a) THEN "unknown" ELSE s]
        BY <3>2, <4>2
      <4>5. CASE Active(a)
        <5>1. ClientWrites'[a] = [ClientWrites[a] EXCEPT !.state = "unknown"]
          <6> PICK wr : wr = ClientWrites[a]
            OBVIOUS
          <6> QED BY <4>2, <4>3, <4>4, <4>5
        <5> QED BY <4>1, <4>5, <5>1
      <4>6. CASE ~ Active(a)
        BY <4>1, <4>2, <4>4, <4>6
      <4> QED BY <4>5, <4>6
    <3>4. ClientWrites' = [a \in DOMAIN att |-> ClientWrites'[a]]
      BY <2>2 DEF ClientWrites
    <3> QED BY <3>1, <3>3, <3>4
  <2> QED BY <1>1, <2>6, <2>8 DEF RegisterStep, Register!Next, Register!Abandon
<1> QED BY <1>3, <1>4

-----------------------------------------------------------------------------
(* The refinement.                                                         *)

\* Every step of the protocol keeps the invariant and is a step of the register.
LEMMA LoneNext ==
  ASSUME TypeInv, LoneInv, [Next]_vars
  PROVE  LoneInv' /\ RegisterStep
<1>1. TypeInv'
  <2>1. ASSUME BeginStep PROVE TypeInv'
    BY <2>1, BeginInv DEF BeginStep
  <2> QED BY <2>1, StepEffect, EffectInv
<1>2. CASE \E n \in Node, k \in ClientKey, v \in Value : Set(n, k, v)
  BY <1>2, RequestStep, ClientsWrite
<1>3. CASE \E n \in Electors : Elect(n)
  BY <1>3 DEF LoneInv, LoneLeader
<1>4. CASE \E a \in DOMAIN att : Ping(a) \/ Return(a)
  BY <1>1, <1>4, PingStep, ReturnStep DEF LoneStep
<1>5. CASE \E a \in DOMAIN att, n \in Node : ProposerStep(a, n)
  BY <1>1, <1>5, ProposeAnsweredStep, AcceptAnsweredStep, SuccessCalledStep, FailedStep,
     StoreTimedOutStep DEF ProposerStep, LoneStep
<1>6. CASE \E a \in DOMAIN att, n \in Node : HandlerStep(a, n)
  BY <1>1, <1>6, StoreStep, LateStep DEF HandlerStep, LoneStep
<1>7. CASE \E n \in Crashable : Crash(n)
  BY <1>1, <1>7, CrashStep, ConstantsAssumption
<1>8. CASE UNCHANGED vars
  <2>1. LoneInv'
    BY <1>8 DEF vars, LoneInv, LoneLeader, LoneTask, LoneRun, Past, Active, Proposed, LeaderLog
  <2>2. ClientWrites' = ClientWrites /\ kv'[TheLeader] = kv[TheLeader]
    BY <1>8 DEF vars, ClientWrites, StateOf
  <2> QED BY <2>1, <2>2 DEF RegisterStep
<1> QED BY <1>2, <1>3, <1>4, <1>5, <1>6, <1>7, <1>8 DEF Next, Idle

\* The leader its flag names, and nothing under way.
LEMMA LoneBegins ==
  ASSUME LoneLeader, Init
  PROVE  LoneInv /\ Register!Init
<1>1. TheLeader \in Node
  BY TheLeaderIsNode
<1>2. att = << >> /\ running = {} /\ log = [n \in Node |-> [k \in Key |-> EmptyLog]]
      /\ kv = [n \in Node |-> [k \in DataKey |-> Nothing]]
  BY DEF Init
<1>3. \A n \in Node : leader[n] = IF n = TheLeader THEN n ELSE Nothing
  BY DEF Init, LoneLeader
<1>4. \A n \in Node, k \in DataKey : Known(log[n][k]) = {}
  BY <1>2 DEF Key, EmptyLog, Known
<1>5. LoneInv
  <2>1. DOMAIN att = {}
    BY <1>2
  <2>2. \A k \in DataKey : LeaderLog(k) = {}
    BY <1>1, <1>4 DEF LeaderLog
  <2>3. \A n \in Node, k \in DataKey, r \in Round : ~ Accepts(log[n][k], r)
    BY <1>4 DEF Accepts
  <2> QED BY <1>1, <1>2, <1>3, <2>1, <2>2, <2>3 DEF LoneInv
<1>6. ClientWrites = << >> /\ kv[TheLeader] = [k \in DataKey |-> Nothing]
  BY <1>1, <1>2 DEF ClientWrites
<1> QED BY <1>5, <1>6 DEF Register!Init

\* In a cluster whose one leader is set by its flag and never challenged, and that writes a
\* key one write at a time, get and set on the leader (rpc.cc:424, rpc.cc:362) are those of
\* one register, whatever calls to other replicas are lost, unanswered or late, whichever
\* replicas stop, and for any number of replicas, keys, values and writes.
THEOREM LeaderShowsRegister == LoneLeader /\ Spec => ImplementsRegister
<1>1. LoneLeader /\ Init => Register!Init /\ TypeInv /\ LoneInv
  BY LoneBegins, InitTypes
<1>2. TypeInv /\ LoneInv /\ [Next]_vars => TypeInv' /\ LoneInv' /\ RegisterStep
  <2>1. ASSUME BeginStep, TypeInv PROVE TypeInv'
    BY <2>1, BeginInv DEF BeginStep
  <2> QED BY <2>1, LoneNext, StepEffect, EffectInv
<1> QED BY <1>1, <1>2, PTL DEF Spec, ImplementsRegister, Register!Spec, RegisterStep

-----------------------------------------------------------------------------
(* Replicas that start again (Startup).                                    *)

\* A handler whose proposer waits for it.
Waited(c) == c[2] = "store" /\ att[c[1]].pc = "storing" /\ IsNext(att[c[1]], c[3])

\* How far a replica has come: it asks, finds the leader, holds the store of the leader of a
\* moment after it started, and puts it in place of its own.
CaughtUp(n) ==
  /\ boot[n].pc \in {"off", "polling", "recovering", "fetching", "copying", "done"}
  /\ boot[n].pc = "polling" =>
       /\ boot[n].leaders \subseteq {TheLeader}
       /\ TheLeader \notin boot[n].todo => TheLeader \in boot[n].live /\ TheLeader \in boot[n].leaders
  /\ boot[n].pc = "recovering" => leader[n] = TheLeader
  /\ boot[n].pc = "fetching" => boot[n].todo = {TheLeader}
  /\ \A k \in DataKey :
       /\ boot[n].pc = "copying" /\ k \in Uncopied(boot[n]) => boot[n].copied[k] >= owed[n][k]
       /\ boot[n].pc = "copying" /\ k \notin Uncopied(boot[n]) => ver[n][k] >= owed[n][k]
       /\ boot[n].pc = "done" => ver[n][k] >= owed[n][k]

\* As long as no call fails: every handler is waited for, and the leader's store, which
\* only moves to later rounds, holds all that was acknowledged, so all that is owed.
RecoverInv ==
  /\ up[TheLeader] /\ boot[TheLeader].pc = "done"
  /\ \A c \in running : Waited(c)
  /\ \A k \in DataKey : ver[TheLeader][k] \in LeaderLog(k) \cup {-1}
  /\ \A a \in DOMAIN att :
       StateOf(att[a]) \in {"applied", "ok"} => att[a].round <= ver[TheLeader][att[a].key]
  /\ \A n \in Node, k \in DataKey : owed[n][k] <= ver[TheLeader][k]
  /\ \A n \in Node : CaughtUp(n)

\* A round, or none, is an integer.
LEMMA RoundsAreInts == \A r \in Round \cup {-1} : r \in Int /\ r >= -1
BY ConstantsAssumption DEF Round

\* The rounds of the stores and those owed are integers.
LEMMA RoundsOwed ==
  ASSUME StartInv, NEW n \in Node, NEW k \in DataKey
  PROVE  ver[n][k] \in Int /\ owed[n][k] \in Int /\ ver[n][k] >= -1 /\ k \in Key
<1>1. ver[n][k] \in Round \cup {-1} /\ owed[n][k] \in Round \cup {-1} /\ k \in Key
  BY DEF StartInv, CoreInv, TypeInv, RestInv, Key
<1> QED BY <1>1, RoundsAreInts

\* A store that moves, moves to the round of an attempt under way, the latest there is.
LEMMA RecoverMoves ==
  ASSUME StartInv, StartInv', LoneInv, RecoverInv, NEW a \in DOMAIN att, NEW u, LoneMove(a, u),
         LogsLearn(a), Shows(a, u), UNCHANGED <<up, boot, owed, leader>>,
         \A n \in Node, k \in DataKey :
           \/ ver'[n][k] = ver[n][k]
           \/ k = att[a].key /\ ver'[n][k] = att[a].round /\ Active(a)
              /\ att[a].round \in LeaderLog(att[a].key),
         \A c \in running' : Waited(c)'
  PROVE  RecoverInv'
<1>1. TypeInv /\ TheLeader \in Node /\ \A k \in DataKey : k \in Key
  BY TheLeaderIsNode DEF StartInv, CoreInv, LoneInv, Key
<1>2. DOMAIN att' = DOMAIN att /\ \A b \in DOMAIN att : att'[b] = IF b = a THEN u ELSE att[b]
  BY <1>1 DEF LoneMove, TypeInv, AttInv
<1>3. \A n \in Node, k \in DataKey :
        ver[n][k] \in Int /\ ver'[n][k] \in Int /\ owed[n][k] \in Int
  <2>1. \A n \in Node, k \in DataKey : ver'[n][k] \in Int
    <3>1. \A n \in Node, k \in DataKey : ver'[n][k] \in Round \cup {-1}
      BY <1>1 DEF StartInv, CoreInv, TypeInv, RestInv
    <3> QED BY <3>1, RoundsAreInts
  <2>2. \A n \in Node, k \in DataKey : ver[n][k] \in Int /\ owed[n][k] \in Int
    BY RoundsOwed
  <2> QED BY <2>1, <2>2
<1>4. ASSUME Active(a)
      PROVE  ver[TheLeader][att[a].key] <= att[a].round
  <2>1. att[a].key \in DataKey /\ att[a].round \in Nat
    BY <1>1, LoneTypes
  <2>2. \A s \in LeaderLog(att[a].key) : s <= att[a].round
    BY <1>4 DEF LoneInv, LoneTask
  <2> QED BY <2>1, <2>2 DEF RecoverInv
<1>5. \A n \in Node, k \in DataKey :
        ver'[n][k] = ver[n][k] \/ ver'[n][k] >= ver[TheLeader][k]
  BY <1>3, <1>4
<1>6. \A k \in DataKey : ver[TheLeader][k] <= ver'[TheLeader][k]
  BY <1>1, <1>3, <1>5
<1>7. \A k \in DataKey : ver'[TheLeader][k] \in LeaderLog(k)' \cup {-1}
  <2>1. \A k \in DataKey : LeaderLog(k) \subseteq LeaderLog(k)'
    BY <1>1 DEF LogsLearn, LogGrows, LeaderLog
  <2> QED BY <1>1, <2>1 DEF RecoverInv
<1>8. ASSUME NEW b \in DOMAIN att', StateOf(att'[b]) \in {"applied", "ok"}
      PROVE  att'[b].round <= ver'[TheLeader][att'[b].key]
  <2>1. att[b].key \in DataKey /\ att[b].round \in Nat /\ att'[b].round = att[b].round
        /\ att'[b].key = att[b].key
    BY <1>1, <1>2, LoneTypes DEF LoneMove, SameRequest
  <2>2. CASE StateOf(att[b]) \in {"applied", "ok"}
    BY <1>1, <1>2, <1>3, <1>6, <2>1, <2>2 DEF RecoverInv
  <2>3. CASE StateOf(att[b]) \notin {"applied", "ok"}
    <3>1. b = a /\ StateOf(att'[b]) = StateOf(u)
      BY <1>2, <1>8, <2>3
    <3>2. ver'[TheLeader][att[a].key] = att[a].round
      BY <1>8, <2>3, <3>1 DEF Shows
    <3> QED BY <2>1, <3>1, <3>2
  <2> QED BY <2>2, <2>3
<1>9. \A n \in Node, k \in DataKey : owed'[n][k] <= ver'[TheLeader][k]
  BY <1>1, <1>3, <1>6 DEF RecoverInv
<1>10. \A n \in Node, k \in DataKey : ver[n][k] >= owed[n][k] => ver'[n][k] >= owed[n][k]
  BY <1>1, <1>3, <1>5 DEF RecoverInv
<1>11. \A n \in Node : CaughtUp(n)'
  BY <1>10 DEF RecoverInv, CaughtUp, Uncopied
<1>12. up'[TheLeader] /\ boot'[TheLeader].pc = "done"
  BY DEF RecoverInv
<1>13. \A b \in DOMAIN att' : StateOf(att'[b]) \in {"applied", "ok"} =>
         att'[b].round <= ver'[TheLeader][att'[b].key]
  BY <1>8
<1>14. \A b \in DOMAIN att : StateOf(att[b])' = StateOf(att'[b])
  BY DEF StateOf
<1> QED BY <1>2, <1>7, <1>9, <1>11, <1>12, <1>13, <1>14 DEF RecoverInv

\* The handlers of the other attempts are waited for as before.
LEMMA OthersWait ==
  ASSUME StartInv, LoneInv, RecoverInv, NEW a \in DOMAIN att, NEW u, LoneMove(a, u),
         NEW c \in running, c[1] # a
  PROVE  Waited(c)'
<1>1. TypeInv /\ c[1] \in DOMAIN att
  BY DEF StartInv, CoreInv, TypeInv, RestInv
<1>2. att'[c[1]] = att[c[1]]
  BY <1>1 DEF LoneMove, TypeInv, AttInv
<1> QED BY <1>2 DEF RecoverInv, Waited, IsNext

\* A handler is waited for by its attempt alone, and there is one at a time.
LEMMA OneIsWaited ==
  ASSUME StartInv, RecoverInv, NEW c \in running, NEW n \in Node, c[1] \in DOMAIN att,
         IsNext(att[c[1]], n)
  PROVE  c = <<c[1], "store", n>>
<1>1. c \in (DOMAIN att) \X {"propose", "accept", "success", "store"} \X Node
  BY DEF StartInv, CoreInv, TypeInv, RestInv
<1>2. c = <<c[1], c[2], c[3]>> /\ c[3] \in Node
  BY <1>1
<1>3. c[2] = "store" /\ IsNext(att[c[1]], c[3])
  BY DEF RecoverInv, Waited
<1>4. c[3] = n
  BY <1>2, <1>3 DEF IsNext, Node
<1> QED BY <1>2, <1>3, <1>4

\* A call of an attempt, or the end of one, to the replicas that start again.
LEMMA CallRecovers ==
  ASSUME StartInv, StartInv', LoneInv, RecoverInv, NEW a \in DOMAIN att, LoneStep(a),
         UNCHANGED <<leader, up, ver, boot, owed>>,
         \A c \in running' : (c \in running /\ c[1] # a) \/ Waited(c)'
  PROVE  RecoverInv'
<1>1. PICK u : LoneMove(a, u) /\ LogsLearn(a) /\ Shows(a, u)
  BY DEF LoneStep
<1>2. \A c \in running' : Waited(c)'
  BY <1>1, OthersWait
<1> QED BY <1>1, <1>2, RecoverMoves

\* The calls that are answered, or that find their replica down, while none fails.
LEMMA ProposerRecovers ==
  ASSUME StartInv, StartInv', LoneInv, RecoverInv, NEW a \in DOMAIN att,
         Ping(a) \/ Return(a) \/ \E n \in Node : ProposerStep(a, n),
         faults = 0, faults' = 0, UNCHANGED <<up, boot, owed>>
  PROVE  RecoverInv'
<1>1. TypeInv /\ TypeInv'
  BY DEF StartInv, CoreInv
<1>2. running \subseteq (DOMAIN att) \X {"propose", "accept", "success", "store"} \X Node
  BY <1>1 DEF TypeInv, RestInv
<1>3. ASSUME att[a].pc # "storing" PROVE \A c \in running : c[1] # a
  BY <1>3 DEF RecoverInv, Waited
<1>4. CASE Ping(a)
  <2>1. LoneStep(a) /\ att[a].pc # "storing" /\ UNCHANGED <<leader, ver, running>>
    BY <1>1, <1>4, PingStep DEF Ping
  <2> QED BY <1>3, <2>1, CallRecovers
<1>5. CASE Return(a)
  <2>1. LoneStep(a) /\ att[a].pc # "storing" /\ UNCHANGED <<leader, ver, running>>
    <3>1. att[a].by = "set"
      BY <1>1, LoneTypes
    <3> QED BY <1>1, <1>5, <3>1, ReturnStep DEF Return
  <2> QED BY <1>3, <2>1, CallRecovers
<1>6. ASSUME NEW n \in Node, ProposerStep(a, n) PROVE RecoverInv'
  <2>1. \A mode : ~ Fault(a, n, mode)
    BY DEF Fault
  <2>2. UNCHANGED <<leader, ver>>
    BY <1>6 DEF ProposerStep, ProposeAnswered, AcceptAnswered, SuccessCalled, Unreachable,
       RequestLost, ReplyLost, TimedOut, StoreTimedOut
  <2>3. CASE ProposeAnswered(a, n) \/ AcceptAnswered(a, n) \/ Unreachable(a, n)
    <3>1. att[a].pc # "storing" /\ UNCHANGED running
      BY <2>3 DEF ProposeAnswered, AcceptAnswered, Unreachable, Calls
    <3>2. LoneStep(a)
      BY <1>1, <2>3, ProposeAnsweredStep, AcceptAnsweredStep, FailedStep
    <3> QED BY <1>3, <2>2, <3>1, <3>2, CallRecovers
  <2>4. CASE SuccessCalled(a, n)
    <3>1. att[a].pc = "success" /\ IsNext(att[a], n) /\ LoneStep(a)
      BY <1>1, <2>4, SuccessCalledStep DEF SuccessCalled, Calls
    <3>2. CASE UNCHANGED running
      BY <1>3, <2>2, <3>1, <3>2, CallRecovers
    <3>3. CASE running' = running \cup {<<a, "store", n>>} /\ att' = [att EXCEPT ![a] = Waiting(@)]
      <4>1. att'[a] = Waiting(att[a])
        BY <1>1, <3>3 DEF TypeInv, AttInv
      <4>2. att'[a].pc = "storing" /\ att'[a].todo = att[a].todo
        BY <1>1, <4>1, LoneTypes DEF Waiting, GoodTask, Task
      <4>3. Waited(<<a, "store", n>>)'
        BY <3>1, <4>2 DEF Waited, IsNext
      <4> QED BY <1>3, <2>2, <3>1, <3>3, <4>3, CallRecovers
    <3> QED BY <2>4, <3>2, <3>3 DEF SuccessCalled
  <2>5. CASE StoreTimedOut(a, n)
    <3>1. <<a, "store", n>> \notin running /\ IsNext(att[a], n) /\ LoneStep(a) /\ UNCHANGED running
      BY <1>1, <2>1, <2>5, StoreTimedOutStep DEF StoreTimedOut, Calls
    <3>2. \A c \in running : c[1] # a
      BY <3>1, OneIsWaited
    <3> QED BY <2>2, <3>1, <3>2, CallRecovers
  <2> QED BY <1>6, <2>1, <2>3, <2>4, <2>5 DEF ProposerStep, RequestLost, ReplyLost, TimedOut
<1> QED BY <1>4, <1>5, <1>6

\* The rest of a success that its proposer waits for: the store of the leader, or of another
\* replica, moves to the latest round.
LEMMA HandlerRecovers ==
  ASSUME StartInv, StartInv', LoneInv, RecoverInv, NEW a \in DOMAIN att, NEW n \in Node,
         HandlerStep(a, n), UNCHANGED <<up, boot, owed>>
  PROVE  RecoverInv'
<1>1. TypeInv /\ TypeInv'
  BY DEF StartInv, CoreInv
<1>2. Store(a, n)
  <2>1. \A m \in {"propose", "accept", "success"} : <<a, m, n>> \notin running
    BY DEF RecoverInv, Waited
  <2> QED BY <2>1 DEF HandlerStep, LatePropose, LateAccept, LateSuccess
<1>3. att[a].pc = "storing" /\ IsNext(att[a], n) /\ running' = running \ {<<a, "store", n>>}
      /\ <<a, "store", n>> \in running
  BY <1>2 DEF Store, RecoverInv, Waited
<1>4. PICK u : LoneMove(a, u) /\ LogsLearn(a) /\ Shows(a, u)
  BY <1>1, <1>2, StoreStep DEF LoneStep
<1>5. \A c \in running' : c \in running /\ c[1] # a
  BY <1>3, OneIsWaited
<1>6. \A c \in running' : Waited(c)'
  BY <1>4, <1>5, OthersWait
<1>7. Active(a) /\ att[a].key \in DataKey /\ att[a].key # LeaderKey
  BY <1>1, <1>3, LoneTypes DEF Active, Stage
<1>8. att[a].round \in LeaderLog(att[a].key)
  BY <1>1, <1>3, <1>7, PastProposals DEF Past, Asking
<1>9. ver' = [ver EXCEPT ![n][att[a].key] = att[a].round] /\ UNCHANGED leader
  BY <1>2, <1>7 DEF Store, Assign
<1>10. ver \in [Node -> [Key -> Round \cup {-1}]] /\ \A k \in DataKey : k \in Key
  BY <1>1 DEF TypeInv, RestInv, Key
<1>11. \A m \in Node, k \in DataKey :
         ver'[m][k] = ver[m][k] \/ (k = att[a].key /\ ver'[m][k] = att[a].round)
  BY <1>7, <1>9, <1>10
<1> QED BY <1>4, <1>6, <1>7, <1>8, <1>9, <1>11, RecoverMoves

\* A write is requested: nothing is promised yet.
LEMMA SetRecovers ==
  ASSUME StartInv, StartInv', RecoverInv, NEW n \in Node, NEW k \in DataKey, NEW v \in Value,
         Set(n, k, v), UNCHANGED <<boot, owed>>
  PROVE  RecoverInv'
<1> DEFINE t == [pc |-> "ping", by |-> "set", node |-> n, key |-> k, value |-> v, round |-> NumKnown(log[n][k]),
                 live |-> {}, todo |-> {}, promised |-> 0, accepted_id |-> 0,
                 accepted_value |-> Nothing, acked |-> {}]
<1>1. att' = Append(att, t) /\ UNCHANGED <<log, leader, up, running, ver>>
  BY DEF Set, Begin
<1>2. StateOf(t) = "pending"
  BY DEF StateOf
<1> HIDE DEF t
<1>3. /\ \A a \in DOMAIN att : att'[a] = att[a]
      /\ \A a \in DOMAIN att' : a \in DOMAIN att \/ att'[a] = t
  BY <1>1 DEF StartInv, CoreInv, TypeInv, AttInv
<1>4. \A c \in running' : Waited(c)'
  <2>1. \A c \in running : c[1] \in DOMAIN att
    BY DEF StartInv, CoreInv, TypeInv, RestInv
  <2> QED BY <1>1, <1>3, <2>1 DEF RecoverInv, Waited, IsNext
<1>5. \A a \in DOMAIN att' : StateOf(att[a])' = StateOf(att'[a])
  BY DEF StateOf
<1>6. \A a \in DOMAIN att' : StateOf(att'[a]) \in {"applied", "ok"} =>
        att'[a].round <= ver'[TheLeader][att'[a].key]
  BY <1>1, <1>2, <1>3 DEF RecoverInv
<1> QED BY <1>1, <1>4, <1>5, <1>6 DEF RecoverInv, CaughtUp, Uncopied, LeaderLog

\* A step of the protocol.
LEMMA NextRecovers ==
  ASSUME StartInv, StartInv', LoneInv, RecoverInv, [Next]_vars, faults = 0, faults' = 0,
         UNCHANGED <<up, boot, owed>>
  PROVE  RecoverInv'
<1>1. CASE \E n \in Node, k \in ClientKey, v \in Value : Set(n, k, v)
  BY <1>1, SetRecovers, ClientsWrite
<1>2. CASE \E n \in Electors : Elect(n)
  BY <1>2 DEF LoneInv, LoneLeader
<1>3. CASE \E a \in DOMAIN att : Ping(a) \/ Return(a)
  BY <1>3, ProposerRecovers
<1>4. CASE \E a \in DOMAIN att, n \in Node : ProposerStep(a, n) \/ HandlerStep(a, n)
  BY <1>4, ProposerRecovers, HandlerRecovers
<1>5. CASE \E n \in Crashable : Crash(n)
  <2>1. \A n \in Crashable : n \in Node
    BY ConstantsAssumption
  <2> QED BY <1>5, <2>1 DEF Crash, StartInv, CoreInv, TypeInv, RestInv
<1>6. CASE UNCHANGED vars
  BY <1>6 DEF vars, RecoverInv, CaughtUp, Uncopied, Waited, IsNext, LeaderLog, StateOf
<1> QED BY <1>1, <1>2, <1>3, <1>4, <1>5, <1>6 DEF Next, Idle

\* A step that no attempt and no handler takes leaves the leader's register alone, when it
\* leaves the leader's log and store alone, and accepts nothing.
LEMMA QuietLone ==
  ASSUME LoneInv, UNCHANGED <<att, running>>,
         log'[TheLeader] = log[TheLeader], kv'[TheLeader] = kv[TheLeader],
         leader'[TheLeader] = leader[TheLeader], \A n \in Node : leader'[n] \in {TheLeader, Nothing},
         \A n \in Node, k \in DataKey, r \in Round : Accepts(log'[n][k], r) => Accepts(log[n][k], r),
         TypeInv
  PROVE  LoneInv' /\ RegisterStep
<1>1. \A k : LeaderLog(k)' = LeaderLog(k)
  BY DEF LeaderLog
<1>2. ASSUME NEW a \in DOMAIN att PROVE LoneTask(a)'
  <2>1. att[a].key \in DataKey /\ att[a].round \in Round
    BY LoneTypes
  <2>2. LoneTask(a)
    BY DEF LoneInv
  <2>3. att[a].pc \in Asking => \A n \in Node : ~ Accepts(log'[n][att[a].key], att[a].round)
    BY <2>1, <2>2 DEF LoneTask
  <2>4. Proposed(att[a]) => Proposed(att[a])'
    BY <1>1 DEF Proposed
  <2> QED BY <1>1, <2>2, <2>3, <2>4 DEF LoneTask, Active
<1>3. \A c \in running' : LoneRun(c)'
  BY <1>1 DEF LoneInv, LoneRun, Past, Active
<1>4. LoneInv'
  BY <1>1, <1>2, <1>3 DEF LoneInv, LoneLeader
<1>5. ClientWrites' = ClientWrites
  BY DEF ClientWrites, StateOf
<1> QED BY <1>4, <1>5 DEF RegisterStep

\* Nor does it keep the replicas from recovering, when they have still caught up.
LEMMA QuietRecovers ==
  ASSUME RecoverInv, UNCHANGED <<att, running>>,
         log'[TheLeader] = log[TheLeader], ver'[TheLeader] = ver[TheLeader],
         boot'[TheLeader] = boot[TheLeader], up'[TheLeader] = up[TheLeader],
         \A n \in Node, k \in DataKey : owed'[n][k] <= ver[TheLeader][k],
         \A n \in Node : CaughtUp(n)'
  PROVE  RecoverInv'
<1>1. \A k : LeaderLog(k)' = LeaderLog(k)
  BY DEF LeaderLog
<1> QED BY <1>1 DEF RecoverInv, Waited, IsNext, StateOf

\* A replica that stops, and is not the leader.
LEMMA StopRecovers ==
  ASSUME StartInv, StartInv', LoneInv, RecoverInv, NEW n \in Node, n # TheLeader, Stop(n)
  PROVE  LoneInv' /\ RegisterStep /\ RecoverInv'
<1>1. TypeInv /\ TypeInv' /\ TheLeader \in Node
  BY TheLeaderIsNode DEF StartInv, CoreInv, LoneInv
<1>2. Crash(n) /\ boot' = [boot EXCEPT ![n] = At("off", {})]
      /\ UNCHANGED <<owed, log, leader, ver>>
  BY DEF Stop, Crash
<1>3. LoneInv' /\ RegisterStep
  BY <1>1, <1>2, CrashStep
<1>4. UNCHANGED att
  <2>1. att' = [a \in DOMAIN att |-> att[a]]
    BY <1>1, <1>2, LoneTypes DEF Crash
  <2> QED BY <1>1, <2>1 DEF TypeInv, AttInv
<1>5. running' \subseteq running /\ up'[TheLeader]
  BY <1>1, <1>2 DEF Crash, RecoverInv, TypeInv, RestInv
<1>6. boot'[n].pc = "off" /\ \A m \in Node : m # n => boot'[m] = boot[m]
  BY <1>2, AtBoot DEF StartInv, BootInv
<1>7. \A m \in Node : CaughtUp(m)'
  <2>1. CaughtUp(n)'
    BY <1>6 DEF CaughtUp
  <2>2. \A m \in Node : m # n => CaughtUp(m)'
    BY <1>2, <1>6 DEF RecoverInv, CaughtUp, Uncopied
  <2> QED BY <2>1, <2>2
<1>8. \A c \in running' : Waited(c)'
  BY <1>4, <1>5 DEF RecoverInv, Waited, IsNext
<1>9. boot'[TheLeader].pc = "done"
  BY <1>1, <1>6 DEF RecoverInv
<1> QED BY <1>2, <1>3, <1>4, <1>5, <1>7, <1>8, <1>9 DEF RecoverInv, LeaderLog, StateOf

\* A replica that starts is owed what the leader's store has.
LEMMA StartRecovers ==
  ASSUME StartInv, StartInv', LoneInv, RecoverInv, NEW n \in Node, Start(n)
  PROVE  LoneInv' /\ RegisterStep /\ RecoverInv'
<1>1. TypeInv /\ TheLeader \in Node /\ n # TheLeader
  BY TheLeaderIsNode DEF StartInv, CoreInv, LoneInv, RecoverInv, Start
<1>2. n \notin Flagged
  BY <1>1 DEF LoneInv, LoneLeader
<1>3. /\ log' = [log EXCEPT ![n] = [k \in Key |-> EmptyLog]]
      /\ kv' = [kv EXCEPT ![n] = [k \in DataKey |-> Nothing]]
      /\ leader' = [leader EXCEPT ![n] = Nothing]
      /\ ver' = [ver EXCEPT ![n] = [k \in Key |-> -1]]
      /\ up' = [up EXCEPT ![n] = TRUE]
      /\ boot' = [boot EXCEPT ![n] = At("polling", Node)]
      /\ owed' = [owed EXCEPT ![n] = [k \in DataKey |-> Latest(Acknowledged(k))]]
      /\ UNCHANGED <<att, running>>
  BY <1>2 DEF Start
<1>4. /\ log'[n] = [k \in Key |-> EmptyLog] /\ leader'[n] = Nothing
      /\ \A m \in Node : m # n => log'[m] = log[m] /\ leader'[m] = leader[m]
  BY <1>1, <1>3 DEF TypeInv, LogInv, RestInv
<1>5. /\ boot'[n] = At("polling", Node)
      /\ \A k \in DataKey : owed'[n][k] = Latest(Acknowledged(k))
      /\ \A m \in Node : m # n => boot'[m] = boot[m] /\ owed'[m] = owed[m]
  BY <1>1, <1>3 DEF StartInv, BootInv
<1>6. \A m \in Node : m # n => ver'[m] = ver[m] /\ up'[m] = up[m] /\ kv'[m] = kv[m]
  BY <1>1, <1>3 DEF TypeInv, RestInv
<1>7. ASSUME NEW m \in Node, NEW k \in DataKey, NEW r \in Round, Accepts(log'[m][k], r)
      PROVE  Accepts(log[m][k], r)
  <2>1. m # n
    <3> SUFFICES ASSUME m = n PROVE FALSE
      OBVIOUS
    <3>1. log'[m][k] = EmptyLog
      BY <1>4 DEF Key
    <3> QED BY <1>7, <3>1 DEF Accepts, Known, EmptyLog
  <2> QED BY <1>4, <1>7, <2>1
<1>8. \A m \in Node : leader'[m] \in {TheLeader, Nothing}
  BY <1>4 DEF LoneInv
<1>9. LoneInv' /\ RegisterStep
  BY <1>1, <1>3, <1>4, <1>6, <1>7, <1>8, QuietLone
<1>10. ASSUME NEW k \in DataKey PROVE Latest(Acknowledged(k)) <= ver[TheLeader][k]
  <2>1. \A a \in DOMAIN att : att[a].round \in Round
    BY <1>1, LoneTypes
  <2>2. Acknowledged(k) \in SUBSET Round
    BY <2>1 DEF Acknowledged
  <2>3. Latest(Acknowledged(k)) \in Acknowledged(k) \cup {-1}
    BY <2>2, LatestIsRound
  <2>4. \A r \in Acknowledged(k) : r <= ver[TheLeader][k]
    BY DEF Acknowledged, RecoverInv, StateOf
  <2>5. ver[TheLeader][k] >= -1 /\ ver[TheLeader][k] \in Int
    BY <1>1, RoundsOwed
  <2> QED BY <2>3, <2>4, <2>5
<1>11. \A m \in Node, k \in DataKey : owed'[m][k] <= ver[TheLeader][k]
  BY <1>5, <1>10 DEF RecoverInv
<1>12. CaughtUp(n)'
  <2>1. boot'[n].pc = "polling" /\ boot'[n].todo = Node /\ boot'[n].leaders = {}
    BY <1>5 DEF At
  <2> QED BY <1>1, <2>1 DEF CaughtUp
<1>13. \A m \in Node : m # n => CaughtUp(m)'
  BY <1>4, <1>5, <1>6 DEF RecoverInv, CaughtUp, Uncopied
<1>14. RecoverInv'
  BY <1>1, <1>3, <1>4, <1>5, <1>6, <1>11, <1>12, <1>13, QuietRecovers
<1> QED BY <1>9, <1>14

-----------------------------------------------------------------------------
(* coordinate, on a replica that is not the leader.                        *)

\* What a step of coordinate on n leaves alone, and where it takes n.
LEMMA CoordinateKeeps ==
  ASSUME StartInv, LoneInv, RecoverInv, NEW n \in Node, n # TheLeader,
         UNCHANGED <<log, up, att, running, owed>>,
         \A m \in Node : m # n =>
           kv'[m] = kv[m] /\ leader'[m] = leader[m] /\ ver'[m] = ver[m] /\ boot'[m] = boot[m],
         leader'[n] \in {TheLeader, Nothing}, CaughtUp(n)'
  PROVE  LoneInv' /\ RegisterStep /\ RecoverInv'
<1>1. TypeInv /\ TheLeader \in Node
  BY TheLeaderIsNode DEF StartInv, CoreInv, LoneInv
<1>2. \A m \in Node : leader'[m] \in {TheLeader, Nothing}
  BY DEF LoneInv
<1>3. \A m \in Node, k \in DataKey, r \in Round : Accepts(log'[m][k], r) => Accepts(log[m][k], r)
  OBVIOUS
<1>4. LoneInv' /\ RegisterStep
  BY <1>1, <1>2, <1>3, QuietLone
<1>5. \A m \in Node : m # n => CaughtUp(m)'
  BY DEF RecoverInv, CaughtUp, Uncopied
<1>6. \A m \in Node, k \in DataKey : owed'[m][k] <= ver[TheLeader][k]
  BY DEF RecoverInv
<1>7. RecoverInv'
  BY <1>1, <1>5, <1>6, QuietRecovers
<1> QED BY <1>4, <1>7

\* A member answers, or is down: it is not the leader then.
LEMMA AskedRecovers ==
  ASSUME StartInv, LoneInv, RecoverInv, NEW n \in Node, NEW m \in Node, faults = 0, faults' = 0,
         LeaderAnswered(n, m) \/ LeaderUnanswered(n, m)
  PROVE  LoneInv' /\ RegisterStep /\ RecoverInv'
<1> DEFINE b == boot[n]
           d == boot'[n]
<1>1. boot \in [Node -> Boot] /\ b \in Boot /\ b.pc = "polling" /\ CaughtUp(n)
      /\ leader[m] \in {TheLeader, Nothing} /\ leader[n] \in {TheLeader, Nothing}
  BY DEF StartInv, BootInv, LeaderAnswered, LeaderUnanswered, Asks, RecoverInv, LoneInv
<1>2. UNCHANGED <<log, kv, leader, up, att, running, votes, ver, owed>>
  BY DEF LeaderAnswered, LeaderUnanswered, vars
<1>3. n # TheLeader
  BY <1>1 DEF RecoverInv
<1>4. /\ d.pc = "polling" /\ d.todo = b.todo \ {m}
      /\ \/ d.live = b.live \cup {m} /\ d.leaders = b.leaders \cup ({leader[m]} \ {Nothing})
         \/ m # TheLeader /\ d.live = b.live /\ d.leaders = b.leaders
      /\ \A j \in Node : j # n => boot'[j] = boot[j]
  <2>1. CASE LeaderAnswered(n, m)
    <3> DEFINE todo == b.todo \ {m}
               live == b.live \cup {m}
               heard == b.leaders \cup ({leader[m]} \ {Nothing})
               e == [b EXCEPT !.todo = todo, !.live = live, !.leaders = heard]
    <3>1. boot' = [boot EXCEPT ![n] = e]
      BY <1>1, <2>1 DEF LeaderAnswered, Boot
    <3> HIDE DEF todo, live, heard
    <3>2. e.pc = "polling" /\ e.todo = todo /\ e.live = live /\ e.leaders = heard
      BY <1>1 DEF Boot
    <3> HIDE DEF e
    <3>3. d = e /\ \A j \in Node : j # n => boot'[j] = boot[j]
      BY <1>1, <3>1
    <3> QED BY <3>2, <3>3 DEF todo, live, heard
  <2>2. CASE LeaderUnanswered(n, m)
    <3> DEFINE todo == b.todo \ {m}
               e == [b EXCEPT !.todo = todo]
    <3>1. boot' = [boot EXCEPT ![n] = e]
      BY <2>2 DEF LeaderUnanswered
    <3>2. ~ up[m]
      BY <2>2 DEF LeaderUnanswered, CallFails
    <3>3. m # TheLeader
      BY <3>2 DEF RecoverInv
    <3> HIDE DEF todo
    <3>4. e.pc = "polling" /\ e.todo = todo /\ e.live = b.live /\ e.leaders = b.leaders
      BY <1>1 DEF Boot
    <3> HIDE DEF e
    <3>5. d = e /\ \A j \in Node : j # n => boot'[j] = boot[j]
      BY <1>1, <3>1
    <3> QED BY <3>3, <3>4, <3>5 DEF todo
  <2> QED BY <2>1, <2>2
<1>5. b.leaders \subseteq {TheLeader}
      /\ (TheLeader \notin b.todo => TheLeader \in b.live /\ TheLeader \in b.leaders)
  BY <1>1 DEF CaughtUp
<1>6. m = TheLeader => leader[m] = TheLeader /\ TheLeader # Nothing
  BY TheLeaderIsNode, ConstantsAssumption DEF LoneInv
<1>7. d.leaders \subseteq {TheLeader}
  BY <1>1, <1>4, <1>5
<1>8. TheLeader \notin d.todo => TheLeader \in d.live /\ TheLeader \in d.leaders
  <2>1. CASE m = TheLeader
    BY <1>4, <1>6, <2>1
  <2>2. CASE m # TheLeader
    BY <1>4, <1>5, <2>2
  <2> QED BY <2>1, <2>2
<1>9. CaughtUp(n)'
  BY <1>4, <1>7, <1>8 DEF CaughtUp
<1> QED BY <1>1, <1>2, <1>3, <1>4, <1>9, CoordinateKeeps

\* Everybody has been asked: the leader has answered, and is the one that is found.
LEMMA FoundRecovers ==
  ASSUME StartInv, LoneInv, RecoverInv, NEW n \in Node,
         boot[n].pc = "polling", boot[n].todo = {}
  PROVE  boot[n].leaders = {TheLeader} /\ FoundLeader(boot[n])
<1>1. /\ boot[n].leaders \subseteq {TheLeader}
      /\ TheLeader \in boot[n].live /\ TheLeader \in boot[n].leaders
  BY DEF RecoverInv, CaughtUp
<1> QED BY <1>1 DEF FoundLeader

\* So it is taken for the leader.
LEMMA TakeRecovers ==
  ASSUME StartInv, LoneInv, RecoverInv, NEW n \in Node, TakeLeader(n)
  PROVE  LoneInv' /\ RegisterStep /\ RecoverInv'
<1>1. boot[n].leaders = {TheLeader} /\ n # TheLeader
  <2>1. boot[n].pc = "polling" /\ boot[n].todo = {}
    BY DEF TakeLeader
  <2> QED BY <2>1, FoundRecovers DEF RecoverInv
<1>2. /\ leader' = [leader EXCEPT ![n] = TheLeader] /\ ver' = [ver EXCEPT ![n][LeaderKey] = -1]
      /\ boot' = [boot EXCEPT ![n] = At("recovering", {})]
      /\ UNCHANGED <<log, kv, up, att, running, owed>>
  BY <1>1 DEF TakeLeader
<1>3. boot'[n].pc = "recovering" /\ leader'[n] = TheLeader
      /\ \A m \in Node : m # n =>
           kv'[m] = kv[m] /\ leader'[m] = leader[m] /\ ver'[m] = ver[m] /\ boot'[m] = boot[m]
  <2>1. boot \in [Node -> Boot] /\ leader \in [Node -> Payload \cup {Nothing}]
        /\ ver \in [Node -> [Key -> Round \cup {-1}]]
    BY DEF StartInv, BootInv, CoreInv, TypeInv, RestInv
  <2>2. boot'[n] = At("recovering", {})
    BY <1>2, <2>1
  <2> QED BY <1>2, <2>1, <2>2 DEF At
<1>4. CaughtUp(n)'
  BY <1>3 DEF CaughtUp
<1> QED BY <1>1, <1>2, <1>3, <1>4, CoordinateKeeps

\* What has a round in the leader's store has a value.
LEMMA NothingStored ==
  ASSUME StartInv, LoneInv, NEW k \in DataKey, kv[TheLeader][k] = Nothing
  PROVE  ver[TheLeader][k] = -1
<1>1. TypeInv /\ TheLeader \in Node
  BY TheLeaderIsNode DEF StartInv, CoreInv, LoneInv
<1>2. \A a \in DOMAIN att : att[a].value # Nothing
  BY <1>1, LoneTypes, ConstantsAssumption DEF GoodTask, Task
<1>3. Nothing \notin Requested(k)
  BY <1>2 DEF Requested
<1> QED BY <1>1, <1>3 DEF StartInv, CoreInv, ValidInv, StoresValid

\* The end of the loop over leader_db.
LEMMA CopiesCaughtUp ==
  ASSUME NEW n \in Node, NEW b \in Boot, b.pc = "copying", boot'[n] = Copying(b),
         \A k \in DataKey : k \in Uncopied(b) => b.copied[k] >= owed'[n][k],
         \A k \in DataKey : k \notin Uncopied(b) => ver'[n][k] >= owed'[n][k]
  PROVE  CaughtUp(n)'
<1>1. CASE Uncopied(b) = {}
  <2>1. boot'[n].pc = "done"
    BY <1>1 DEF Copying, Finished, At
  <2> QED BY <1>1, <2>1 DEF CaughtUp
<1>2. CASE Uncopied(b) # {}
  <2>1. boot'[n] = b
    BY <1>2 DEF Copying
  <2>2. Uncopied(boot[n])' = Uncopied(b)
    BY <2>1 DEF Uncopied
  <2> QED BY <2>1, <2>2 DEF CaughtUp
<1> QED BY <1>1, <1>2

\* The leader is asked for its store.
LEMMA AskRecovers ==
  ASSUME StartInv, LoneInv, RecoverInv, NEW n \in Node, AskStore(n) \/ AskNobody(n)
  PROVE  LoneInv' /\ RegisterStep /\ RecoverInv'
<1>1. /\ n # TheLeader /\ leader[n] = TheLeader /\ TheLeader \in Node
      /\ boot \in [Node -> Boot]
  BY TheLeaderIsNode DEF RecoverInv, CaughtUp, AskStore, AskNobody, LoneInv, StartInv, BootInv
<1>2. boot' = [boot EXCEPT ![n] = At("fetching", {TheLeader})]
      /\ UNCHANGED <<log, kv, leader, up, att, running, votes, ver, owed>>
  <2>1. leader[n] \notin {n, Nothing} /\ leader[n] \in Node
    BY <1>1, ConstantsAssumption DEF Payload
  <2> QED BY <1>1, <2>1 DEF AskStore, AskNobody, vars
<1>3. boot'[n] = At("fetching", {TheLeader}) /\ \A m \in Node : m # n => boot'[m] = boot[m]
  BY <1>1, <1>2
<1>4. CaughtUp(n)'
  BY <1>3 DEF CaughtUp, At
<1> QED BY <1>1, <1>2, <1>3, <1>4, CoordinateKeeps

\* Its store is fetched: it has all that is owed.
LEMMA FetchRecovers ==
  ASSUME StartInv, LoneInv, RecoverInv, NEW n \in Node, NEW l \in Node, StoreAnswered(n, l)
  PROVE  LoneInv' /\ RegisterStep /\ RecoverInv'
<1> DEFINE copied == [k \in DataKey |-> ver[TheLeader][k]]
           copy == kv[TheLeader]
           b == [At("copying", {}) EXCEPT !.copy = copy, !.copied = copied]
<1>1. n # TheLeader /\ l = TheLeader /\ TheLeader \in Node /\ boot \in [Node -> Boot]
      /\ leader[n] \in {TheLeader, Nothing}
  BY TheLeaderIsNode DEF RecoverInv, CaughtUp, StoreAnswered, LoneInv, StartInv, BootInv
<1>2. boot' = [boot EXCEPT ![n] = Copying(b)]
      /\ UNCHANGED <<log, kv, leader, up, att, running, votes, ver, owed>>
  BY <1>1 DEF StoreAnswered, vars
<1>3. copy \in [DataKey -> Payload \cup {Nothing}] /\ copied \in [DataKey -> Round \cup {-1}]
  BY <1>1 DEF StartInv, CoreInv, TypeInv, RestInv, Key
<1>4. \A k \in DataKey : copied[k] >= owed[n][k]
  <2>1. \A k \in DataKey : copied[k] \in Int /\ owed[n][k] \in Int
    BY <1>1, RoundsOwed
  <2> QED BY <2>1 DEF RecoverInv
<1>5. \A k \in DataKey : copy[k] = Nothing => ver[n][k] >= owed[n][k]
  <2> SUFFICES ASSUME NEW k \in DataKey, kv[TheLeader][k] = Nothing PROVE ver[n][k] >= owed[n][k]
    OBVIOUS
  <2>1. copied[k] = -1
    BY NothingStored
  <2>2. ver[n][k] \in Int /\ ver[n][k] >= -1 /\ owed[n][k] \in Int
    BY RoundsOwed
  <2> QED BY <1>4, <2>1, <2>2
<1> HIDE DEF copy, copied
<1>6. b \in Boot /\ b.pc = "copying" /\ b.copy = copy /\ b.copied = copied
  <2>1. At("copying", {}) \in Boot /\ At("copying", {}).pc = "copying"
    BY AtBoot
  <2> QED BY <1>3, <2>1 DEF Boot
<1> HIDE DEF b
<1>7. boot'[n] = Copying(b) /\ \A m \in Node : m # n => boot'[m] = boot[m]
  BY <1>1, <1>2
<1>8. CaughtUp(n)'
  BY <1>2, <1>4, <1>5, <1>6, <1>7, CopiesCaughtUp DEF Uncopied
<1> QED BY <1>1, <1>2, <1>7, <1>8, CoordinateKeeps

\* One key of the leader's store takes the place of the replica's own.
LEMMA CopyRecovers ==
  ASSUME StartInv, LoneInv, RecoverInv, NEW n \in Node, NEW k \in DataKey, CopyKey(n, k)
  PROVE  LoneInv' /\ RegisterStep /\ RecoverInv'
<1> DEFINE copy == [boot[n].copy EXCEPT ![k] = Nothing]
           copied == [boot[n].copied EXCEPT ![k] = -1]
           b == [boot[n] EXCEPT !.copy = copy, !.copied = copied]
<1>1. boot \in [Node -> Boot] /\ boot[n] \in Boot /\ boot[n].pc = "copying"
      /\ k \in Uncopied(boot[n]) /\ n # TheLeader /\ CaughtUp(n)
      /\ leader[n] \in {TheLeader, Nothing}
  BY DEF StartInv, BootInv, CopyKey, RecoverInv, LoneInv
<1>2. /\ kv' = [kv EXCEPT ![n][k] = boot[n].copy[k]]
      /\ ver' = [ver EXCEPT ![n][k] = boot[n].copied[k]]
      /\ boot' = [boot EXCEPT ![n] = Copying(b)]
      /\ UNCHANGED <<log, leader, up, att, running, owed>>
  BY <1>1 DEF CopyKey, Boot
<1>3. copy \in [DataKey -> Payload \cup {Nothing}] /\ copied \in [DataKey -> Round \cup {-1}]
      /\ copy[k] = Nothing
      /\ \A j \in DataKey : j # k => copy[j] = boot[n].copy[j] /\ copied[j] = boot[n].copied[j]
  BY <1>1 DEF Boot
<1> HIDE DEF copy, copied
<1>4. b \in Boot /\ b.pc = "copying" /\ b.copy = copy /\ b.copied = copied
  BY <1>1, <1>3 DEF Boot
<1> HIDE DEF b
<1>5. boot'[n] = Copying(b) /\ \A m \in Node : m # n => boot'[m] = boot[m]
  BY <1>1, <1>2
<1>6. ver'[n][k] = boot[n].copied[k] /\ (\A j \in DataKey : j # k => ver'[n][j] = ver[n][j])
      /\ \A m \in Node : m # n => ver'[m] = ver[m] /\ kv'[m] = kv[m]
  <2>1. ver \in [Node -> [Key -> Round \cup {-1}]] /\ kv \in [Node -> [DataKey -> Payload \cup {Nothing}]]
        /\ \A j \in DataKey : j \in Key
    BY DEF StartInv, CoreInv, TypeInv, RestInv, Key
  <2> QED BY <1>2, <2>1
<1>7. \A j \in DataKey : j \in Uncopied(b) <=> (j # k /\ j \in Uncopied(boot[n]))
  BY <1>3, <1>4 DEF Uncopied
<1>8. \A j \in DataKey : j \in Uncopied(b) => b.copied[j] >= owed'[n][j]
  BY <1>1, <1>2, <1>3, <1>4, <1>7 DEF CaughtUp
<1>9. \A j \in DataKey : j \notin Uncopied(b) => ver'[n][j] >= owed'[n][j]
  BY <1>1, <1>2, <1>6, <1>7 DEF CaughtUp
<1>10. CaughtUp(n)'
  BY <1>4, <1>5, <1>8, <1>9, CopiesCaughtUp
<1> QED BY <1>1, <1>2, <1>5, <1>6, <1>10, CoordinateKeeps

\* coordinate: nobody leads by its flag again, nobody elects itself.
LEMMA CoordinateRecovers ==
  ASSUME StartInv, LoneInv, RecoverInv, NEW n \in Node, Coordinate(n), faults = 0, faults' = 0
  PROVE  LoneInv' /\ RegisterStep /\ RecoverInv'
<1>1. boot[n].pc \notin {"leading", "electing"}
  BY DEF RecoverInv, CaughtUp
<1>2. ~ Lead(n) /\ ~ ElectionOver(n)
  BY <1>1 DEF Lead, ElectionOver
<1>3. ~ ElectSelf(n) /\ ~ ElectionLost(n)
  BY FoundRecovers DEF ElectSelf, ElectionLost
<1>4. ASSUME NEW m \in Node PROVE ~ StoreFailed(n, m) /\ ~ StoreLost(n, m)
  BY DEF RecoverInv, CaughtUp, StoreFailed, StoreLost, CallFails
<1> QED BY <1>2, <1>3, <1>4, TakeRecovers, AskRecovers, FetchRecovers, AskedRecovers, CopyRecovers
        DEF Coordinate

-----------------------------------------------------------------------------
(* The leader is not to die, nor a call between running replicas to fail.  *)

LeaderStays == LoneLeader /\ TheLeader \notin Crashable

\* Calls that have failed have failed.
LEMMA FaultsStay ==
  ASSUME StartInv, [StartNext]_startVars, faults' = 0
  PROVE  faults = 0
<1>1. faults \in Nat
  BY ConstantsAssumption DEF StartInv, CoreInv, TypeInv, RestInv
<1>2. CASE UNCHANGED faults
  BY <1>2
<1>3. CASE faults' = faults + 1
  BY <1>1, <1>3
<1>4. ASSUME NEW a \in DOMAIN att, Ping(a) PROVE faults = 0
  <2>1. PICK missed \in SUBSET {n \in Node : up[n] /\ <<att[a].node, n>> \in Lossy} :
          faults' = faults + Cardinality(missed)
    BY <1>4 DEF Ping
  <2>2. IsFiniteSet(Node)
    BY FS_Interval, ConstantsAssumption DEF Node
  <2>3. missed \in SUBSET Node
    BY <2>1
  <2>4. Cardinality(missed) \in Nat
    BY <2>2, <2>3, FS_Subset, FS_CardinalityType
  <2> QED BY <1>1, <2>1, <2>4
<1>5. ASSUME Next PROVE faults = 0
  <2>1. CASE \E n \in Node, k \in ClientKey, v \in Value : Set(n, k, v)
    BY <1>2, <2>1 DEF Set, Begin
  <2>2. CASE \E n \in Electors : Elect(n)
    BY <1>2, <2>2 DEF Elect, Begin
  <2>3. CASE \E a \in DOMAIN att : Ping(a) \/ Return(a)
    BY <1>2, <1>4, <2>3 DEF Return
  <2>4. CASE \E a \in DOMAIN att, n \in Node : ProposerStep(a, n)
    BY <1>2, <1>3, <2>4 DEF ProposerStep, ProposeAnswered, AcceptAnswered, SuccessCalled,
       Unreachable, RequestLost, ReplyLost, TimedOut, StoreTimedOut, Fault
  <2>5. CASE \E a \in DOMAIN att, n \in Node : HandlerStep(a, n)
    BY <1>2, <2>5 DEF HandlerStep, Store, LatePropose, LateAccept, LateSuccess
  <2>6. CASE \E n \in Crashable : Crash(n)
    BY <1>2, <2>6 DEF Crash
  <2>7. CASE Idle
    BY <1>2, <2>7 DEF Idle, vars
  <2> QED BY <1>5, <2>1, <2>2, <2>3, <2>4, <2>5, <2>6, <2>7 DEF Next
<1>6. ASSUME NEW n \in Node, Start(n) \/ Coordinate(n) PROVE faults = 0
  <2>1. CASE Start(n)
    BY <1>2, <2>1 DEF Start
  <2>2. CASE Coordinate(n)
    BY <1>2, <1>3, <2>2 DEF Coordinate, Lead, TakeLeader, AskStore, AskNobody, Stop, Crash,
       StoreAnswered, StoreFailed, StoreLost, ElectSelf, Elect, Begin, ElectionLost, ElectionOver,
       LeaderAnswered, LeaderUnanswered, CopyKey, CallFails, vars
  <2> QED BY <1>6, <2>1, <2>2
<1>7. CASE \E n \in Crashable : Stop(n)
  BY <1>2, <1>7 DEF Stop, Crash
<1>8. CASE UNCHANGED startVars
  BY <1>2, <1>8 DEF startVars, vars
<1> QED BY <1>5, <1>6, <1>7, <1>8 DEF StartNext

\* As long as no call fails, a step keeps the two invariants and is one of the register.
LEMMA StartNextRecovers ==
  ASSUME LeaderStays, StartInv, StartInv', LoneInv, RecoverInv, [StartNext]_startVars,
         faults = 0, faults' = 0
  PROVE  LoneInv' /\ RegisterStep /\ RecoverInv'
<1>1. TypeInv
  BY DEF StartInv, CoreInv
<1>2. CASE [Next]_vars /\ UNCHANGED <<up, boot, owed>>
  BY <1>1, <1>2, LoneNext, NextRecovers
<1>3. CASE \E n \in Crashable : Stop(n)
  <2>1. \A n \in Crashable : n \in Node /\ n # TheLeader
    BY ConstantsAssumption DEF LeaderStays
  <2> QED BY <1>3, <2>1, StopRecovers
<1>4. CASE \E n \in Node : Start(n) \/ Coordinate(n)
  BY <1>4, StartRecovers, CoordinateRecovers
<1>5. UNCHANGED startVars => UNCHANGED vars /\ UNCHANGED <<up, boot, owed>>
  BY DEF startVars, vars
<1> QED BY <1>2, <1>3, <1>4, <1>5 DEF StartNext

\* Nobody has stopped yet.
LEMMA StartRecovery ==
  ASSUME LeaderStays, StartInit
  PROVE  LoneInv /\ RecoverInv /\ Register!Init
<1>1. LoneLeader /\ Init /\ boot = [n \in Node |-> Finished]
      /\ owed = [n \in Node |-> [k \in DataKey |-> -1]]
  BY DEF StartInit, LeaderStays
<1>2. LoneInv /\ Register!Init /\ TheLeader \in Node
  BY <1>1, LoneBegins, TheLeaderIsNode
<1>3. /\ att = << >> /\ running = {} /\ up = [n \in Node |-> TRUE]
      /\ ver = [n \in Node |-> [k \in Key |-> -1]]
  BY <1>1 DEF Init
<1>4. \A n \in Node, k \in DataKey : ver[n][k] = -1 /\ owed[n][k] = -1
  BY <1>1, <1>3 DEF Key
<1>5. \A n \in Node : boot[n].pc = "done"
  BY <1>1 DEF Finished, At
<1>6. \A n \in Node : CaughtUp(n)
  BY <1>4, <1>5 DEF CaughtUp
<1>7. DOMAIN att = {}
  BY <1>3
<1> QED BY <1>2, <1>3, <1>4, <1>5, <1>6, <1>7 DEF RecoverInv

\* What is kept over crashes and starts: nothing is said once a call has failed.
RecoveryInv == LeaderStays /\ StartInv /\ (faults = 0 => LoneInv /\ RecoverInv)

\* It holds of every behaviour of replicas that crash and start.
LEMMA RecoveryInvariant == LeaderStays /\ StartSpec => []RecoveryInv
<1>1. LeaderStays /\ StartInit => RecoveryInv
  BY StartsSound, StartRecovery DEF RecoveryInv
<1>2. RecoveryInv /\ [StartNext]_startVars => RecoveryInv'
  <2> SUFFICES ASSUME RecoveryInv, [StartNext]_startVars PROVE RecoveryInv'
    OBVIOUS
  <2>1. StartInv /\ StartInv' /\ LeaderStays
    BY StartNextKeeps DEF RecoveryInv
  <2>2. faults' = 0 => LoneInv' /\ RecoverInv'
    BY <2>1, FaultsStay, StartNextRecovers DEF RecoveryInv
  <2> QED BY <2>1, <2>2 DEF RecoveryInv, LeaderStays, LoneLeader
<1> QED BY <1>1, <1>2, PTL DEF StartSpec

\* A replica that starts with nothing and has recovered from the leader its flag sets
\* (coordinate, app.cc:136) stores, for every key, what was acknowledged before it started or
\* something later, however writes go on and other replicas come and go meanwhile, for any
\* number of replicas, keys, writes, crashes and starts: until a call between running
\* replicas fails, and while the leader lives.
THEOREM RecoversWhatIsOwed == LeaderStays /\ StartSpec => []RecoversAcknowledged
<1>1. RecoveryInv => RecoversAcknowledged
  BY DEF RecoveryInv, RecoverInv, CaughtUp, RecoversAcknowledged
<1> QED BY <1>1, RecoveryInvariant, PTL

\* And when no call between running replicas fails, get and set on the leader (rpc.cc:424,
\* rpc.cc:362) are those of one register, although the others stop, start and recover.
THEOREM RestartsShowRegister ==
  LeaderStays /\ MaxFaults = 0 /\ StartSpec => ImplementsRegister
<1> SUFFICES ASSUME MaxFaults = 0 PROVE LeaderStays /\ StartSpec => ImplementsRegister
  OBVIOUS
<1>1. RecoveryInv => StartInv /\ faults = 0 /\ LoneInv /\ RecoverInv
  BY DEF RecoveryInv, StartInv, CoreInv, TypeInv, RestInv
<1>2. LeaderStays /\ StartInit => Register!Init
  BY StartRecovery
<1>3. RecoveryInv /\ RecoveryInv' /\ [StartNext]_startVars => RegisterStep
  <2> SUFFICES ASSUME RecoveryInv, RecoveryInv', [StartNext]_startVars PROVE RegisterStep
    OBVIOUS
  <2>1. StartInv /\ faults = 0 /\ LoneInv /\ RecoverInv /\ LeaderStays
    BY <1>1 DEF RecoveryInv
  <2>2. StartInv' /\ faults' = 0
    BY DEF RecoveryInv, StartInv, CoreInv, TypeInv, RestInv
  <2> QED BY <2>1, <2>2, StartNextRecovers
<1> QED BY <1>2, <1>3, RecoveryInvariant, PTL
     DEF StartSpec, ImplementsRegister, Register!Spec, RegisterStep
===============================================================================
