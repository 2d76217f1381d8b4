-------------------------- MODULE VerificationProofs -------------------------
(***************************************************************************)
(* Safety of the verification protocol, for every set of replicators, any  *)
(* number of verifications and any number of crashes, approvals and        *)
(* expiries: opinions are justified, what is published is a quorum, and    *)
(* nothing of a verification outlives it.                                  *)
(***************************************************************************)
EXTENDS Verification, FiniteSetTheorems, TLAPS

------------------------------------------------------------------------------
(* The inductive invariant.  Its parts are stated for sets of codes and     *)
(* opinions that are parameters: inside a step the own opinion is collected *)
(* before it is shared.                                                     *)

DriveType == [phase   : {"down", "init", "up"},
              last    : Modification,
              target  : Modification,
              request : TxOrNone,
              damaged : BOOLEAN]

ChainType == [pending   : TxOrNone,
              started   : TxOrNone,
              last      : Modification,
              about     : [Tx -> Modification],
              published : [Tx -> SUBSET Opinion]]

EarlyType == [codes : SUBSET Code, opinions : SUBSET Opinion]

\* What the chain really posts: the identifiers of every type of event.
Posted ==
    [type : {"start"}, id : Tx] \cup [type : {"stop"}, id : Tx]
    \cup [type : {"approved"}, id : Modification]

Types ==
    /\ chain \in ChainType
    /\ inbox \in [Replicators -> Seq(Posted)]
    /\ drive \in [Replicators -> DriveType]
    /\ task \in [Replicators -> Task \cup {NoTask}]
    /\ early \in [Replicators -> EarlyType]
    /\ codes \in SUBSET Code
    /\ opinions \in SUBSET Opinion

\* Every approval is a disturbance, so that their number is bounded.
Bounded == disturbances \in 0..MaxDisturbances /\ chain.last <= disturbances

Same(d, r, s) == r = s \/ (~d[r].damaged /\ ~d[s].damaged)

\* An opinion vouches only for those whose code was shared and whose files
\* are the same, and for all of these unless the time was up.
Justified(o, d, cs) ==
    /\ \A s \in o.good : /\ Same(d, o.from, s)
                         /\ s = o.from \/ [tx |-> o.tx, from |-> s] \in cs
    /\ ~o.late => \A s \in Replicators : Same(d, o.from, s) => s \in o.good

Unique(S) == \A o \in S, q \in S : o.tx = q.tx /\ o.from = q.from => o = q

Enough(S) == Cardinality(S) > (2 * ReplicatorNumber) \div 3

\* What a task has received was shared, and what it has collected is about its
\* verification, one opinion of each; enough before the timer runs.
TaskOK(r, t, cs, os) ==
    /\ t \in Task
    /\ r \notin t.received
    /\ \A s \in t.received : [tx |-> t.tx, from |-> s] \in cs
    /\ \A o \in t.collected : o \in os /\ o.tx = t.tx
    /\ Unique(t.collected)
    /\ IsFiniteSet(t.collected)
    /\ t.opinionTimer = "running" => Enough(t.collected)

EarlyOK(r, e, cs, os) ==
    /\ \A c \in e.codes : c.from # r
    /\ e.codes \subseteq cs
    /\ e.opinions \subseteq os
    /\ Unique(e.opinions)
    /\ IsFiniteSet(e.opinions)

PublishedOK(info, tx, os) ==
    info # {} => /\ Enough(info) /\ Unique(info)
                 /\ \A o \in info : o \in os /\ o.tx = tx

IInv ==
    /\ Types
    /\ \A r \in Replicators : task[r] # NoTask => TaskOK(r, task[r], codes, opinions)
    /\ \A r \in Replicators : EarlyOK(r, early[r], codes, opinions)
    /\ \A o \in opinions : Justified(o, drive, codes)
    /\ \A tx \in Tx : PublishedOK(chain.published[tx], tx, opinions)


------------------------------------------------------------------------------
(* Numbers and events. *)

LEMMA Numbers ==
  /\ Tx \subseteq TxOrNone /\ 0 \in TxOrNone /\ 0 \notin Tx /\ Tx \subseteq Nat
  /\ TxOrNone \subseteq Nat /\ \A n \in TxOrNone : n # 0 => n \in Tx
  /\ Modification \subseteq Nat /\ 0 \in Modification
BY VerificationAssumption DEF Tx, TxOrNone, Modification

LEMMA PostedIds ==
  ASSUME NEW e \in Posted
  PROVE  /\ e.type = "start" => e.id \in Tx
         /\ e.type = "approved" => e.id \in Modification
         /\ e \in Event
BY Numbers DEF Posted, Event

------------------------------------------------------------------------------
(* The helpers of a task. *)

\* A task that is in order stays so when more was shared.
LEMMA TaskGrows ==
  ASSUME NEW r, NEW t, NEW cs, NEW os, NEW cs2, NEW os2,
         TaskOK(r, t, cs, os), cs \subseteq cs2, os \subseteq os2
  PROVE  TaskOK(r, t, cs2, os2)
BY DEF TaskOK

\* A justified opinion stays so: codes are never taken back and a drive is
\* damaged or not from the beginning.
LEMMA JustifiedStays ==
  ASSUME NEW o, NEW d, NEW d2, NEW cs, NEW cs2, Justified(o, d, cs),
         cs \subseteq cs2, o \in Opinion,
         \A r \in Replicators : d2[r].damaged = d[r].damaged
  PROVE  Justified(o, d2, cs2)
BY DEF Justified, Same, Opinion

\* processedVerificationOpinion: one opinion of each replicator is kept, and
\* the timer is only started when enough have come.
LEMMA OpinionKeeps ==
  ASSUME NEW r, NEW t, NEW cs, NEW os, NEW op \in Opinion,
         TaskOK(r, t, cs, os), op \in os, op.tx = t.tx
  PROVE  TaskOK(r, ProcessedVerificationOpinion(t, op), cs, os)
<1> DEFINE all == t.collected \cup {op}
<1>0. /\ t \in Task /\ t.collected \in SUBSET Opinion
      /\ IsFiniteSet(t.collected) /\ Unique(t.collected)
  BY DEF TaskOK, Task
<1>1. CASE t.collected = {}
  <2> DEFINE u == [t EXCEPT !.collected = {op}]
  <2>1. ProcessedVerificationOpinion(t, op) = u
    BY <1>1 DEF ProcessedVerificationOpinion
  <2>2. IsFiniteSet({op}) /\ Cardinality({op}) = 1
    BY FS_Singleton
  <2>3. u \in Task /\ u.collected = {op} /\ u.received = t.received
        /\ u.tx = t.tx /\ u.opinionTimer = t.opinionTimer
    BY <1>0 DEF Task
  <2>4. Cardinality(t.collected) = 0
    BY <1>1, FS_EmptySet
  <2>5. t.opinionTimer = "running" => Enough({op})
    <3>1. ReplicatorNumber \in Nat
      BY VerificationAssumption, FS_CardinalityType DEF ReplicatorNumber
    <3> QED BY <2>2, <2>4, <3>1, <1>1 DEF TaskOK, Enough
  <2> QED BY <2>1, <2>2, <2>3, <2>5 DEF TaskOK, Unique
<1>2. CASE t.collected # {} /\ op.from \in {o.from : o \in t.collected}
  BY <1>2 DEF ProcessedVerificationOpinion
<1>3. CASE t.collected # {} /\ op.from \notin {o.from : o \in t.collected}
  <2> DEFINE timer == IF /\ t.formed
                         /\ Cardinality(all) > (2 * ReplicatorNumber) \div 3
                         /\ t.opinionTimer = "off"
                      THEN "running" ELSE t.opinionTimer
             u == [t EXCEPT !.collected = all, !.opinionTimer = timer]
  <2>1. ProcessedVerificationOpinion(t, op) = u
    BY <1>3 DEF ProcessedVerificationOpinion
  <2>2. op \notin t.collected
    BY <1>3
  <2>3. /\ IsFiniteSet(all) /\ Cardinality(all) = Cardinality(t.collected) + 1
        /\ Cardinality(t.collected) \in Nat
    BY <1>0, <2>2, FS_AddElement, FS_CardinalityType
  <2>4. /\ u \in Task /\ u.collected = all /\ u.received = t.received
        /\ u.tx = t.tx /\ u.opinionTimer = timer
    BY <1>0 DEF Task
  <2>5. ReplicatorNumber \in Nat
    BY VerificationAssumption, FS_CardinalityType DEF ReplicatorNumber
  <2>6. timer = "running" => Enough(all)
    BY <2>3, <2>5 DEF TaskOK, Enough
  <2>7. Unique(all)
    BY <1>0, <1>3 DEF Unique
  <2>8. \A o \in all : o \in os /\ o.tx = t.tx
    BY DEF TaskOK
  <2>9. \A s \in t.received : [tx |-> t.tx, from |-> s] \in cs
    BY DEF TaskOK
  <2> HIDE DEF u, timer, all
  <2> QED BY <2>1, <2>3, <2>4, <2>6, <2>7, <2>8, <2>9 DEF TaskOK
<1> QED BY <1>1, <1>2, <1>3

\* The own opinion vouches for those whose code has come and whose files are
\* the same.
LEMMA MyOpinionJustified ==
  ASSUME NEW r \in Replicators, NEW t, NEW late \in BOOLEAN, NEW cs, NEW os,
         TaskOK(r, t, cs, os), late \/ t.received = Replicators \ {r}
  PROVE  /\ MyOpinion(r, t, late) \in Opinion
         /\ MyOpinion(r, t, late).from = r
         /\ MyOpinion(r, t, late).tx = t.tx
         /\ Justified(MyOpinion(r, t, late), drive, cs)
<1>1. t \in Task /\ t.tx \in Tx
  BY DEF TaskOK, Task
<1>2. /\ MyOpinion(r, t, late) \in Opinion
      /\ MyOpinion(r, t, late).from = r /\ MyOpinion(r, t, late).tx = t.tx
  BY <1>1 DEF MyOpinion, Opinion
<1>3. \A s \in MyOpinion(r, t, late).good :
          s = r \/ (s \in t.received /\ SameFiles(r, s))
  BY DEF MyOpinion
<1>4. ~late => \A s \in Replicators : Same(drive, r, s) => s \in MyOpinion(r, t, late).good
  BY DEF MyOpinion, Same, SameFiles
<1>5. MyOpinion(r, t, late).late = late
  BY DEF MyOpinion
<1>6. Justified(MyOpinion(r, t, late), drive, cs)
  BY <1>2, <1>3, <1>4, <1>5 DEF Justified, Same, SameFiles, TaskOK
<1> QED BY <1>2, <1>6

\* What a step of a task of r has made of it: it is in order if its own
\* opinion is shared too.
Advanced(r, u, cs, os) ==
    \E my \in Opinion : /\ my.from = r /\ Justified(my, drive, cs)
                             /\ TaskOK(r, u, cs, os \cup {my})

LEMMA ExpiredAdvances ==
  ASSUME NEW r \in Replicators, NEW t, NEW late \in BOOLEAN, NEW cs, NEW os,
         TaskOK(r, t, cs, os), late \/ t.received = Replicators \ {r}
  PROVE  Advanced(r, VerifyCodeTimerExpired(r, t, late), cs, os)
<1> DEFINE my == MyOpinion(r, t, late)
           u == [t EXCEPT !.formed = TRUE]
<1>1. /\ my \in Opinion /\ my.from = r /\ my.tx = t.tx
      /\ Justified(my, drive, cs)
  BY MyOpinionJustified
<1>2. TaskOK(r, t, cs, os \cup {my})
  BY TaskGrows
<1>3. TaskOK(r, u, cs, os \cup {my}) /\ u.tx = t.tx
  BY <1>2 DEF TaskOK, Task
<1>4. TaskOK(r, ProcessedVerificationOpinion(u, my), cs, os \cup {my})
  <2> HIDE DEF my, u
  <2> QED BY <1>1, <1>3, OpinionKeeps
<1>5. VerifyCodeTimerExpired(r, t, late) = ProcessedVerificationOpinion(u, my)
  BY DEF VerifyCodeTimerExpired
<1> HIDE DEF my, u
<1> QED BY <1>1, <1>4, <1>5 DEF Advanced

\* A task that does not form its opinion in a step has made none up.
LEMMA KeptAdvances ==
  ASSUME NEW r \in Replicators, NEW t, NEW cs, NEW os, TaskOK(r, t, cs, os)
  PROVE  Advanced(r, t, cs, os)
<1> DEFINE my == MyOpinion(r, t, TRUE)
<1>1. /\ my \in Opinion /\ my.from = r /\ Justified(my, drive, cs)
  BY MyOpinionJustified
<1>2. TaskOK(r, t, cs, os \cup {my})
  BY TaskGrows
<1> HIDE DEF my
<1> QED BY <1>1, <1>2 DEF Advanced

\* One code less than there are replicators, and none of itself: those of all
\* the others (checkVerifyCodeNumber).
LEMMA AllOthers ==
  ASSUME NEW r \in Replicators, NEW S \in SUBSET Replicators, r \notin S,
         Cardinality(S) = ReplicatorNumber - 1
  PROVE  S = Replicators \ {r}
<1> DEFINE others == Replicators \ {r}
<1>1. IsFiniteSet(others) /\ Cardinality(others) = ReplicatorNumber - 1
  BY VerificationAssumption, FS_RemoveElement DEF ReplicatorNumber
<1>2. S \in SUBSET others
  OBVIOUS
<1> HIDE DEF others
<1>3. S = others
  BY <1>1, <1>2, FS_Subset
<1> QED BY <1>3 DEF others

LEMMA CheckAdvances ==
  ASSUME NEW r \in Replicators, NEW t, NEW cs, NEW os, TaskOK(r, t, cs, os)
  PROVE  Advanced(r, CheckVerifyCodeNumber(r, t), cs, os)
<1>1. CASE t.formed
  <2>1. CheckVerifyCodeNumber(r, t) = t
    BY <1>1 DEF CheckVerifyCodeNumber
  <2> QED BY <2>1, KeptAdvances
<1>2. CASE ~t.formed /\ Cardinality(t.received) = ReplicatorNumber - 1
  <2>1. CheckVerifyCodeNumber(r, t) = VerifyCodeTimerExpired(r, t, FALSE)
    BY <1>2 DEF CheckVerifyCodeNumber
  <2>2. t.received = Replicators \ {r}
    BY <1>2, AllOthers DEF TaskOK, Task
  <2> QED BY <2>1, <2>2, ExpiredAdvances
<1>3. CASE ~t.formed /\ Cardinality(t.received) # ReplicatorNumber - 1
  <2> DEFINE u == [t EXCEPT !.codeTimer = TRUE]
  <2>1. CheckVerifyCodeNumber(r, t) = u
    BY <1>3 DEF CheckVerifyCodeNumber
  <2>2. TaskOK(r, u, cs, os)
    BY DEF TaskOK, Task
  <2> HIDE DEF u
  <2> QED BY <2>1, <2>2, KeptAdvances
<1> QED BY <1>1, <1>2, <1>3

LEMMA CodeAdvances ==
  ASSUME NEW r \in Replicators, NEW t, NEW cs, NEW os, NEW c \in Code,
         TaskOK(r, t, cs, os), c \in cs, c.tx = t.tx, c.from # r
  PROVE  Advanced(r, ProcessedVerificationCode(r, t, c), cs, os)
<1> DEFINE u == [t EXCEPT !.received = @ \cup {c.from}]
<1>1. t \in Task /\ t.received \in SUBSET Replicators
  BY DEF TaskOK, Task
<1>2. /\ u \in Task /\ u.received = t.received \cup {c.from} /\ u.tx = t.tx
      /\ u.collected = t.collected /\ u.opinionTimer = t.opinionTimer
  BY <1>1 DEF Task, Code
<1>3. c = [tx |-> t.tx, from |-> c.from]
  BY DEF Code
<1>4. TaskOK(r, u, cs, os)
  <2> HIDE DEF u
  <2> QED BY <1>2, <1>3 DEF TaskOK
<1>5. CASE c.from \in t.received
  <2>1. ProcessedVerificationCode(r, t, c) = t
    BY <1>5 DEF ProcessedVerificationCode
  <2> QED BY <2>1, KeptAdvances
<1>6. CASE c.from \notin t.received /\ t.calculated
  <2>1. ProcessedVerificationCode(r, t, c) = CheckVerifyCodeNumber(r, u)
    BY <1>6 DEF ProcessedVerificationCode
  <2> HIDE DEF u
  <2> QED BY <2>1, <1>4, CheckAdvances
<1>7. CASE c.from \notin t.received /\ ~t.calculated
  <2>1. ProcessedVerificationCode(r, t, c) = u
    BY <1>7 DEF ProcessedVerificationCode
  <2> HIDE DEF u
  <2> QED BY <2>1, <1>4, KeptAdvances
<1> QED BY <1>5, <1>6, <1>7


------------------------------------------------------------------------------
(* The steps. *)

LEMMA InitHolds == Init => IInv
<1> SUFFICES ASSUME Init PROVE IInv
  OBVIOUS
<1> USE VerificationAssumption
<1>1. IsFiniteSet({})
  BY FS_EmptySet
<1>2. Types
  BY Numbers DEF Init, Types, ChainType, DriveType, EarlyType, NothingEarly
<1>3. \A r \in Replicators : EarlyOK(r, early[r], codes, opinions)
  BY <1>1 DEF Init, EarlyOK, NothingEarly, Unique
<1>4. \A tx \in Tx : PublishedOK(chain.published[tx], tx, opinions)
  BY DEF Init, PublishedOK
<1> QED BY <1>2, <1>3, <1>4 DEF IInv, Init

\* Whatever happens between a replicator's drive and the chain, the codes,
\* opinions and tasks are the same.
LEMMA EventsKeep ==
  ASSUME IInv, Types', UNCHANGED <<task, early, codes, opinions>>,
         chain'.published = chain.published,
         \A r \in Replicators : drive'[r].damaged = drive[r].damaged
  PROVE  IInv'
<1>1. \A o \in opinions' : Justified(o, drive', codes')
  BY JustifiedStays DEF IInv, Types
<1> QED BY <1>1 DEF IInv

\* A step in which a task may form its opinion and shares it.
LEMMA ShareKeeps ==
  ASSUME IInv, NEW r \in Replicators, NEW t, NEW cs,
         codes' = cs, codes \subseteq cs, cs \subseteq Code,
         Advanced(r, t, cs, opinions), t # NoTask,
         task' = [task EXCEPT ![r] = t], Share(r, t),
         UNCHANGED <<chain, inbox, drive, early>>
  PROVE  IInv'
<1>1. PICK my \in Opinion :
          /\ my.from = r /\ Justified(my, drive, cs)
          /\ TaskOK(r, t, cs, opinions \cup {my})
  BY DEF Advanced
<1>2. /\ opinions \subseteq opinions'
      /\ \A o \in opinions' : o \in opinions \/ o = my
      /\ \A o \in t.collected : o \in opinions'
  BY <1>1 DEF Share, TaskOK
<1>3. opinions' \in SUBSET Opinion
  BY <1>1, <1>2 DEF IInv, Types
<1>4. TaskOK(r, t, codes', opinions')
  BY <1>1, <1>2 DEF TaskOK
<1>5. \A s \in Replicators : task'[s] # NoTask => TaskOK(s, task'[s], codes', opinions')
  <2> SUFFICES ASSUME NEW s \in Replicators, task'[s] # NoTask
               PROVE  TaskOK(s, task'[s], codes', opinions')
    OBVIOUS
  <2>1. CASE s = r
    BY <2>1, <1>4 DEF IInv, Types
  <2>2. CASE s # r
    BY <2>2, <1>2, TaskGrows DEF IInv, Types
  <2> QED BY <2>1, <2>2
<1>6. \A o \in opinions' : Justified(o, drive', codes')
  BY <1>1, <1>2, JustifiedStays DEF IInv, Types
<1>7. \A s \in Replicators : EarlyOK(s, early'[s], codes', opinions')
  BY <1>2 DEF IInv, EarlyOK
<1>8. \A tx \in Tx : PublishedOK(chain'.published[tx], tx, opinions')
  BY <1>2 DEF IInv, PublishedOK
<1>9. Types'
  BY <1>3, <1>4 DEF IInv, Types, TaskOK
<1> QED BY <1>5, <1>6, <1>7, <1>8, <1>9 DEF IInv

LEMMA ShareSteps ==
  ASSUME IInv, NEW r \in Replicators,
         \/ VerificationCodesCompleted(r)
         \/ OnVerifyCodeTimer(r)
         \/ \E c \in codes : OnVerificationCodeReceived(r, c) /\ task[r].tx = c.tx
  PROVE  IInv'
<1>0. /\ codes \in SUBSET Code /\ task \in [Replicators -> Task \cup {NoTask}]
      /\ task[r] # NoTask => TaskOK(r, task[r], codes, opinions)
  BY DEF IInv, Types
<1>1. \A u \in Task : u # NoTask
  BY DEF Task, NoTask, Tx
<1>2. ASSUME VerificationCodesCompleted(r) PROVE IInv'
  <2> DEFINE c == [tx |-> task[r].tx, from |-> r]
             cs == codes \cup {c}
             u == [task[r] EXCEPT !.calculated = TRUE]
             t == CheckVerifyCodeNumber(r, u)
  <2>1. TaskOK(r, task[r], codes, opinions) /\ task[r].tx \in Tx
    BY <1>0, <1>2 DEF VerificationCodesCompleted, TaskOK, Task
  <2>2. cs \subseteq Code /\ codes \subseteq cs
    BY <1>0, <2>1 DEF Code
  <2>3. TaskOK(r, u, codes, opinions)
    BY <2>1 DEF TaskOK, Task
  <2>4. TaskOK(r, u, cs, opinions)
    BY <2>2, <2>3, TaskGrows
  <2>5. Advanced(r, t, cs, opinions)
    <3> HIDE DEF u, cs
    <3> QED BY <2>4, CheckAdvances
  <2>6. t # NoTask
    <3> HIDE DEF t
    <3> QED BY <2>5, <1>1 DEF Advanced, TaskOK
  <2>7. /\ codes' = cs /\ task' = [task EXCEPT ![r] = t] /\ Share(r, task'[r])
        /\ UNCHANGED <<chain, inbox, drive, early>>
    BY <1>2 DEF VerificationCodesCompleted
  <2>8. task'[r] = t
    BY <2>7, <1>0
  <2> HIDE DEF t, cs
  <2> QED BY <2>2, <2>5, <2>6, <2>7, <2>8, ShareKeeps
<1>3. ASSUME OnVerifyCodeTimer(r) PROVE IInv'
  <2> DEFINE t == VerifyCodeTimerExpired(r, task[r], TRUE)
  <2>1. TaskOK(r, task[r], codes, opinions)
    BY <1>0, <1>3 DEF OnVerifyCodeTimer
  <2>2. Advanced(r, t, codes, opinions)
    BY <2>1, ExpiredAdvances
  <2>3. t # NoTask
    <3> HIDE DEF t
    <3> QED BY <2>2, <1>1 DEF Advanced, TaskOK
  <2>4. /\ codes' = codes /\ task' = [task EXCEPT ![r] = t] /\ Share(r, task'[r])
        /\ UNCHANGED <<chain, inbox, drive, early>>
    BY <1>3 DEF OnVerifyCodeTimer
  <2>5. task'[r] = t
    BY <2>4, <1>0
  <2> HIDE DEF t
  <2> QED BY <1>0, <2>2, <2>3, <2>4, <2>5, ShareKeeps
<1>4. ASSUME NEW c \in codes, OnVerificationCodeReceived(r, c), task[r].tx = c.tx
      PROVE  IInv'
  <2> DEFINE t == ProcessedVerificationCode(r, task[r], c)
  <2>1. c \in Code /\ task[r] # NoTask
    BY <1>0, <1>4 DEF Code, NoTask, Tx
  <2>2. TaskOK(r, task[r], codes, opinions)
    BY <1>0, <2>1
  <2>3. Advanced(r, t, codes, opinions)
    <3>1. c.from # r
      BY <1>4 DEF OnVerificationCodeReceived
    <3> QED BY <1>4, <2>1, <2>2, <3>1, CodeAdvances
  <2>4. t # NoTask
    <3> HIDE DEF t
    <3> QED BY <2>3, <1>1 DEF Advanced, TaskOK
  <2>5. /\ codes' = codes /\ task' = [task EXCEPT ![r] = t] /\ Share(r, task'[r])
        /\ UNCHANGED <<chain, inbox, drive, early>>
    BY <1>4 DEF OnVerificationCodeReceived
  <2>6. task'[r] = t
    BY <2>5, <1>0
  <2> HIDE DEF t
  <2> QED BY <1>0, <2>3, <2>4, <2>5, <2>6, ShareKeeps
<1> QED BY <1>2, <1>3, <1>4


\* What the chain posts.
LEMMA PostType ==
  ASSUME Types, NEW type, NEW id, [type |-> type, id |-> id] \in Posted
  PROVE  Post(type, id) \in [Replicators -> Seq(Posted)]
<1> DEFINE e == [type |-> type, id |-> id]
<1>1. e \in Posted
  OBVIOUS
<1>2. inbox \in [Replicators -> Seq(Posted)]
  BY DEF Types
<1> HIDE DEF e
<1>3. ASSUME NEW r \in Replicators PROVE Append(inbox[r], e) \in Seq(Posted)
  <2>1. inbox[r] \in Seq(Posted)
    BY <1>2
  <2> QED BY <1>1, <2>1
<1> QED BY <1>2, <1>3 DEF Post, e

LEMMA ChainSteps ==
  ASSUME IInv, Bounded, ChainStart \/ ChainCancel \/ ChainApprove
  PROVE  IInv'
<1>0. Types /\ chain \in ChainType
  BY DEF IInv, Types
<1>1. ASSUME ChainStart PROVE IInv'
  <2> DEFINE tx == chain.started + 1
             about == [chain.about EXCEPT ![tx] = chain.last]
  <2>0. /\ chain.started \in TxOrNone /\ chain.about \in [Tx -> Modification]
        /\ chain.last \in Modification
    BY <1>0 DEF ChainType
  <2>1. tx \in Tx
    BY <1>1, <2>0, VerificationAssumption DEF ChainStart, Tx, TxOrNone
  <2>2. chain' = [chain EXCEPT !.pending = tx, !.started = tx, !.about = about]
        /\ inbox' = Post("start", tx) /\ UNCHANGED <<drive, task, early, codes, opinions>>
    BY <1>1 DEF ChainStart
  <2> HIDE DEF tx
  <2>3. about \in [Tx -> Modification]
    BY <2>0
  <2> HIDE DEF about
  <2>4. chain' \in ChainType /\ chain'.published = chain.published
    BY <1>0, <2>1, <2>2, <2>3, Numbers DEF ChainType
  <2>5. [type |-> "start", id |-> tx] \in Posted
    BY <2>1 DEF Posted
  <2>6. inbox' \in [Replicators -> Seq(Posted)]
    BY <1>0, <2>2, <2>5, PostType
  <2> QED BY <1>0, <2>2, <2>4, <2>6, EventsKeep DEF Types
<1>2. ASSUME ChainCancel PROVE IInv'
  <2>1. chain.pending \in Tx
    BY <1>0, <1>2, Numbers DEF ChainCancel, ChainType
  <2>2. [type |-> "stop", id |-> chain.pending] \in Posted
    BY <2>1 DEF Posted
  <2>3. inbox' \in [Replicators -> Seq(Posted)]
    BY <1>0, <1>2, <2>2, PostType DEF ChainCancel
  <2>4. chain' \in ChainType /\ chain'.published = chain.published
    BY <1>0, <1>2, Numbers DEF ChainCancel, ChainType
  <2> QED BY <1>0, <1>2, <2>3, <2>4, EventsKeep DEF ChainCancel, Types
<1>3. ASSUME ChainApprove PROVE IInv'
  <2> DEFINE m == chain.last + 1
  <2>0. chain.last \in Modification
    BY <1>0 DEF ChainType
  <2>1. m \in Modification
    BY <1>3, <2>0, VerificationAssumption DEF ChainApprove, Bounded, Modification
  <2>2. chain' = [chain EXCEPT !.last = m] /\ inbox' = Post("approved", m)
        /\ UNCHANGED <<drive, task, early, codes, opinions>>
    BY <1>3 DEF ChainApprove
  <2> HIDE DEF m
  <2>3. [type |-> "approved", id |-> m] \in Posted
    BY <2>1 DEF Posted
  <2>4. inbox' \in [Replicators -> Seq(Posted)]
    BY <1>0, <2>2, <2>3, PostType
  <2>5. chain' \in ChainType /\ chain'.published = chain.published
    BY <1>0, <2>1, <2>2 DEF ChainType
  <2> QED BY <1>0, <2>2, <2>4, <2>5, EventsKeep DEF Types
<1> QED BY <1>1, <1>2, <1>3

\* A change of one drive and its task: nothing that was shared is affected.
LEMMA DriveChanges ==
  ASSUME IInv, NEW r \in Replicators, NEW d \in DriveType,
         d.damaged = drive[r].damaged,
         drive' = [drive EXCEPT ![r] = d],
         inbox' \in [Replicators -> Seq(Posted)],
         NEW t \in Task \cup {NoTask}, task' = [task EXCEPT ![r] = t],
         t # NoTask => TaskOK(r, t, codes, opinions),
         early' \in [Replicators -> EarlyType],
         \A s \in Replicators : EarlyOK(s, early'[s], codes, opinions),
         UNCHANGED <<chain, codes, opinions>>
  PROVE  IInv'
<1>1. Types'
  BY DEF IInv, Types
<1>2. \A s \in Replicators : drive'[s].damaged = drive[s].damaged
  BY DEF IInv, Types
<1>3. \A o \in opinions' : Justified(o, drive', codes')
  BY <1>2, JustifiedStays DEF IInv, Types
<1>4. \A s \in Replicators : task'[s] # NoTask => TaskOK(s, task'[s], codes', opinions')
  BY DEF IInv, Types
<1> QED BY <1>1, <1>3, <1>4 DEF IInv

\* A task begins with what has come early for its verification.
LEMMA NewTaskOK ==
  ASSUME IInv, NEW r \in Replicators, NEW tx \in Tx
  PROVE  TaskOK(r, NewTask(r, tx), codes, opinions)
<1> DEFINE t == NewTask(r, tx)
           mine == {o \in early[r].opinions : o.tx = tx}
<1>1. /\ EarlyOK(r, early[r], codes, opinions)
      /\ early[r].codes \in SUBSET Code /\ early[r].opinions \in SUBSET Opinion
  BY DEF IInv, Types, EarlyType
<1>2. /\ t.tx = tx /\ t.collected = mine /\ t.opinionTimer = "off"
      /\ t.received = {c.from : c \in {c \in early[r].codes : c.tx = tx}}
  BY DEF NewTask
<1>3. IsFiniteSet(mine)
  BY <1>1, FS_Subset DEF EarlyOK
<1>4. Unique(mine) /\ \A o \in mine : o \in opinions /\ o.tx = tx
  BY <1>1 DEF EarlyOK, Unique
<1>5. \A s \in t.received : [tx |-> tx, from |-> s] \in codes
  <2> SUFFICES ASSUME NEW c \in early[r].codes, c.tx = tx
               PROVE  [tx |-> tx, from |-> c.from] \in codes
    BY <1>2
  <2>1. c = [tx |-> tx, from |-> c.from]
    BY <1>1 DEF Code
  <2> QED BY <1>1, <2>1 DEF EarlyOK
<1>6. t \in Task
  <2>1. t.received \in SUBSET Replicators
    BY <1>1, <1>2 DEF Code
  <2>2. mine \in SUBSET Opinion
    BY <1>1
  <2> QED BY <2>1, <2>2, <1>2 DEF NewTask, Task
<1>7. r \notin t.received
  BY <1>1, <1>2 DEF EarlyOK
<1> HIDE DEF t, mine
<1> QED BY <1>2, <1>3, <1>4, <1>5, <1>6, <1>7 DEF TaskOK, t

\* runNextTask may begin the deferred verification.
LEMMA DeferredKeeps ==
  ASSUME IInv, NEW r \in Replicators, NEW d \in DriveType,
         d.damaged = drive[r].damaged, RunDeferred(r, d),
         inbox' \in [Replicators -> Seq(Posted)],
         UNCHANGED <<chain, codes, opinions>>
  PROVE  IInv'
<1>0. /\ Types /\ \A s \in Replicators : EarlyOK(s, early[s], codes, opinions)
      /\ task[r] \in Task \cup {NoTask}
      /\ task[r] # NoTask => TaskOK(r, task[r], codes, opinions)
  BY DEF IInv, Types
<1>1. CASE d.request # 0 /\ d.phase = "up" /\ d.last = chain.about[d.request]
  <2> DEFINE e == [d EXCEPT !.request = 0]
             t == NewTask(r, d.request)
  <2>1. /\ task' = [task EXCEPT ![r] = t] /\ drive' = [drive EXCEPT ![r] = e]
        /\ early' = [early EXCEPT
                        ![r].codes = {c \in @ : c.tx # d.request},
                        ![r].opinions = {o \in @ : o.tx # d.request}]
    BY <1>1 DEF RunDeferred, RunVerificationTask
  <2>2. e \in DriveType /\ e.damaged = drive[r].damaged
    BY Numbers DEF DriveType
  <2>3. TaskOK(r, t, codes, opinions)
    BY <1>1, NewTaskOK, Numbers DEF DriveType
  <2>4. t \in Task
    BY <2>3 DEF TaskOK
  <2>5. early' \in [Replicators -> EarlyType]
    BY <1>0, <2>1 DEF Types, EarlyType
  <2>6. \A s \in Replicators : EarlyOK(s, early'[s], codes, opinions)
    <3> SUFFICES ASSUME NEW s \in Replicators PROVE EarlyOK(s, early'[s], codes, opinions)
      OBVIOUS
    <3>1. /\ early'[s].codes \subseteq early[s].codes
          /\ early'[s].opinions \subseteq early[s].opinions
      BY <1>0, <2>1 DEF Types
    <3>2. IsFiniteSet(early'[s].opinions)
      BY <1>0, <3>1, FS_Subset DEF EarlyOK
    <3> QED BY <1>0, <3>1, <3>2 DEF EarlyOK, Unique
  <2> HIDE DEF e, t
  <2> QED BY <2>1, <2>2, <2>3, <2>4, <2>5, <2>6, DriveChanges
<1>2. CASE ~(d.request # 0 /\ d.phase = "up" /\ d.last = chain.about[d.request])
  <2>1. drive' = [drive EXCEPT ![r] = d] /\ UNCHANGED <<task, early>>
    BY <1>2 DEF RunDeferred
  <2>2. task' = [task EXCEPT ![r] = task[r]]
    BY <1>0, <2>1 DEF Types
  <2> QED BY <1>0, <2>1, <2>2, DriveChanges DEF Types
<1> QED BY <1>1, <1>2

LEMMA TakeType ==
  ASSUME IInv, NEW r \in Replicators, NEW type, Take(r, type)
  PROVE  /\ inbox' \in [Replicators -> Seq(Posted)]
         /\ Head(inbox[r]) \in Posted
<1>1. inbox \in [Replicators -> Seq(Posted)] /\ inbox[r] \in Seq(Posted)
  BY DEF IInv, Types
<1>2. inbox[r] # <<>> /\ inbox' = [inbox EXCEPT ![r] = Tail(inbox[r])]
  BY DEF Take
<1>3. Head(inbox[r]) \in Posted /\ Tail(inbox[r]) \in Seq(Posted)
  BY <1>1, <1>2
<1> QED BY <1>1, <1>2, <1>3

LEMMA DriveSteps ==
  ASSUME IInv, NEW r \in Replicators,
         OnStart(r) \/ OnStop(r) \/ OnApproved(r) \/ Reach(r) \/ Initialized(r)
  PROVE  IInv'
<1>0. /\ drive[r] \in DriveType /\ inbox \in [Replicators -> Seq(Posted)]
      /\ \A s \in Replicators : EarlyOK(s, early[s], codes, opinions)
      /\ early \in [Replicators -> EarlyType]
  BY DEF IInv, Types
<1>1. ASSUME OnStart(r) PROVE IInv'
  <2> DEFINE d == [drive[r] EXCEPT !.request = Head(inbox[r]).id]
  <2>0. /\ inbox' \in [Replicators -> Seq(Posted)] /\ Head(inbox[r]) \in Posted
        /\ Head(inbox[r]).type = "start"
    BY <1>1, TakeType DEF OnStart, Take
  <2>1. inbox' \in [Replicators -> Seq(Posted)] /\ Head(inbox[r]).id \in TxOrNone
    BY <2>0, PostedIds, Numbers
  <2>2. d \in DriveType /\ d.damaged = drive[r].damaged
    BY <1>0, <2>1 DEF DriveType
  <2>3. RunDeferred(r, d) /\ UNCHANGED <<chain, codes, opinions>>
    BY <1>1 DEF OnStart
  <2> HIDE DEF d
  <2> QED BY <2>1, <2>2, <2>3, DeferredKeeps
<1>2. ASSUME NEW d \in DriveType, d.damaged = drive[r].damaged,
             CancelVerification(r, d), inbox' \in [Replicators -> Seq(Posted)],
             UNCHANGED <<chain, early, codes, opinions>>
      PROVE  IInv'
  <2> DEFINE e == [d EXCEPT !.request = 0]
  <2>1. e \in DriveType /\ e.damaged = drive[r].damaged
    BY <1>2, Numbers DEF DriveType
  <2>2. drive' = [drive EXCEPT ![r] = e] /\ task' = [task EXCEPT ![r] = NoTask]
    BY <1>2 DEF CancelVerification
  <2> HIDE DEF e
  <2> QED BY <1>0, <1>2, <2>1, <2>2, DriveChanges
<1>3. ASSUME OnStop(r) PROVE IInv'
  <2>1. inbox' \in [Replicators -> Seq(Posted)]
    BY <1>3, TakeType DEF OnStop
  <2> QED BY <1>0, <1>2, <1>3, <2>1 DEF OnStop
<1>4. ASSUME OnApproved(r) PROVE IInv'
  <2> DEFINE d == [drive[r] EXCEPT !.target = Head(inbox[r]).id]
  <2>0. /\ inbox' \in [Replicators -> Seq(Posted)] /\ Head(inbox[r]) \in Posted
        /\ Head(inbox[r]).type = "approved"
    BY <1>4, TakeType DEF OnApproved, Take
  <2>1. inbox' \in [Replicators -> Seq(Posted)] /\ Head(inbox[r]).id \in Modification
    BY <2>0, PostedIds
  <2>2. d \in DriveType /\ d.damaged = drive[r].damaged
    BY <1>0, <2>1 DEF DriveType
  <2>3. CancelVerification(r, d) /\ UNCHANGED <<chain, early, codes, opinions>>
    BY <1>4 DEF OnApproved
  <2> HIDE DEF d
  <2> QED BY <1>2, <2>1, <2>2, <2>3
<1>5. ASSUME Reach(r) PROVE IInv'
  <2> DEFINE d == [drive[r] EXCEPT !.last = drive[r].target]
  <2>1. d \in DriveType /\ d.damaged = drive[r].damaged
    BY <1>0 DEF DriveType
  <2>2. RunDeferred(r, d) /\ UNCHANGED <<chain, inbox, codes, opinions>>
    BY <1>5 DEF Reach
  <2> HIDE DEF d
  <2> QED BY <1>0, <2>1, <2>2, DeferredKeeps
<1>6. ASSUME Initialized(r) PROVE IInv'
  <2> DEFINE d == [drive[r] EXCEPT !.phase = "up"]
  <2>1. d \in DriveType /\ d.damaged = drive[r].damaged
    BY <1>0 DEF DriveType
  <2>2. RunDeferred(r, d) /\ UNCHANGED <<chain, inbox, codes, opinions>>
    BY <1>6 DEF Initialized
  <2> HIDE DEF d
  <2> QED BY <1>0, <2>1, <2>2, DeferredKeeps
<1> QED BY <1>1, <1>3, <1>4, <1>5, <1>6

\* A transaction is only sent with enough opinions.
LEMMA TimerStep ==
  ASSUME IInv, NEW r \in Replicators, OnVerifyOpinionTimer(r)
  PROVE  IInv'
<1> DEFINE t == task[r]
           u == [t EXCEPT !.opinionTimer = "expired"]
<1>0. /\ Types /\ chain \in ChainType /\ task \in [Replicators -> Task \cup {NoTask}]
      /\ TaskOK(r, t, codes, opinions) /\ t.opinionTimer = "running"
  BY DEF IInv, Types, OnVerifyOpinionTimer
<1>1. TaskOK(r, u, codes, opinions) /\ u \in Task
  BY <1>0 DEF TaskOK, Task
<1>2. task' = [task EXCEPT ![r] = u] /\ UNCHANGED <<drive, early, codes, opinions>>
  BY DEF OnVerifyOpinionTimer
<1>3. \A s \in Replicators : task'[s] # NoTask => TaskOK(s, task'[s], codes', opinions')
  <2> HIDE DEF u, t
  <2> QED BY <1>0, <1>1, <1>2 DEF IInv
<1>4. task' \in [Replicators -> Task \cup {NoTask}]
  <2> HIDE DEF u, t
  <2> QED BY <1>0, <1>1, <1>2
<1>5. t.tx \in Nat /\ t.collected \in SUBSET Opinion
  BY <1>0 DEF TaskOK, Task, Tx
<1>6. PublishedOK(t.collected, t.tx, opinions)
  BY <1>0 DEF TaskOK, PublishedOK
<1>7. CASE chain.pending = t.tx
  <2> DEFINE pub == [chain.published EXCEPT ![t.tx] = t.collected]
  <2>1. chain' = [chain EXCEPT !.pending = 0, !.published = pub]
    BY <1>7 DEF OnVerifyOpinionTimer
  <2>2. chain.published \in [Tx -> SUBSET Opinion]
    BY <1>0 DEF ChainType
  <2>3. pub \in [Tx -> SUBSET Opinion]
    BY <1>5, <2>2
  <2>4. inbox' \in [Replicators -> Seq(Posted)]
    <3>1. [type |-> "stop", id |-> t.tx] \in Posted
      BY <1>0 DEF TaskOK, Task, Posted
    <3> QED BY <1>0, <1>7, <3>1, PostType DEF OnVerifyOpinionTimer
  <2>5. \A tx \in Tx : PublishedOK(pub[tx], tx, opinions)
    <3> SUFFICES ASSUME NEW tx \in Tx PROVE PublishedOK(pub[tx], tx, opinions)
      OBVIOUS
    <3>1. CASE tx = t.tx
      <4>1. pub[tx] = t.collected
        BY <3>1, <2>2
      <4> HIDE DEF pub, t
      <4> QED BY <1>6, <3>1, <4>1
    <3>2. CASE tx # t.tx
      <4>1. pub[tx] = chain.published[tx]
        BY <3>2, <2>2
      <4> HIDE DEF pub, t
      <4> QED BY <4>1 DEF IInv
    <3> QED BY <3>1, <3>2
  <2> HIDE DEF pub
  <2>6. chain' \in ChainType /\ chain'.published = pub
    BY <1>0, <2>1, <2>3, Numbers DEF ChainType
  <2>7. Types'
    BY <1>0, <1>2, <1>4, <2>4, <2>6 DEF Types
  <2> QED BY <1>2, <1>3, <2>5, <2>6, <2>7 DEF IInv
<1>8. CASE chain.pending # t.tx
  <2>1. UNCHANGED <<chain, inbox>>
    BY <1>8 DEF OnVerifyOpinionTimer
  <2>2. Types'
    BY <1>0, <1>2, <1>4, <2>1 DEF Types
  <2> QED BY <1>2, <1>3, <2>1, <2>2 DEF IInv
<1> QED BY <1>7, <1>8

\* What comes before its verification is kept aside.
LEMMA EarlyKeeps ==
  ASSUME IInv, NEW r \in Replicators,
         NEW e \in EarlyType,
         EarlyOK(r, e, codes, opinions), early' = [early EXCEPT ![r] = e],
         UNCHANGED <<chain, inbox, drive, task, codes, opinions>>
  PROVE  IInv'
<1>1. Types'
  BY DEF IInv, Types
<1>2. \A s \in Replicators : EarlyOK(s, early'[s], codes', opinions')
  BY DEF IInv, Types
<1> QED BY <1>1, <1>2 DEF IInv

LEMMA CodeStep ==
  ASSUME IInv, NEW r \in Replicators, NEW c \in codes,
         OnVerificationCodeReceived(r, c), task[r].tx # c.tx
  PROVE  IInv'
<1> DEFINE cs == IF MayBeRead(r, c.tx) THEN early[r].codes \cup {c} ELSE early[r].codes
           e == [early[r] EXCEPT !.codes = cs]
<1>0. /\ early[r] \in EarlyType
      /\ EarlyOK(r, early[r], codes, opinions) /\ c \in Code
  BY DEF IInv, Types
<1>1. early' = [early EXCEPT ![r] = e]
      /\ UNCHANGED <<chain, inbox, drive, task, codes, opinions>>
  BY DEF OnVerificationCodeReceived
<1>2. cs \in SUBSET Code /\ cs \subseteq codes /\ \A k \in cs : k.from # r
  BY <1>0 DEF EarlyOK, EarlyType, OnVerificationCodeReceived
<1> HIDE DEF cs
<1>3. /\ e \in EarlyType
      /\ e.codes = cs /\ e.opinions = early[r].opinions
  BY <1>0, <1>2 DEF EarlyType
<1>4. EarlyOK(r, e, codes, opinions)
  BY <1>0, <1>2, <1>3 DEF EarlyOK
<1> HIDE DEF e
<1> QED BY <1>1, <1>3, <1>4, EarlyKeeps

LEMMA OpinionStep ==
  ASSUME IInv, NEW r \in Replicators, NEW o \in opinions,
         OnVerificationOpinionReceived(r, o)
  PROVE  IInv'
<1>0. /\ early[r] \in EarlyType
      /\ EarlyOK(r, early[r], codes, opinions) /\ o \in Opinion /\ Types
      /\ task \in [Replicators -> Task \cup {NoTask}]
  BY DEF IInv, Types
<1>1. CASE task[r].tx = o.tx
  <2> DEFINE t == ProcessedVerificationOpinion(task[r], o)
  <2>1. task[r] # NoTask
    BY <1>0, <1>1 DEF Opinion, NoTask, Tx
  <2>2. TaskOK(r, t, codes, opinions)
    BY <1>0, <1>1, <2>1, OpinionKeeps DEF IInv
  <2>3. task' = [task EXCEPT ![r] = t]
        /\ UNCHANGED <<chain, inbox, drive, early, codes, opinions>>
    BY <1>1 DEF OnVerificationOpinionReceived
  <2> HIDE DEF t
  <2>4. t \in Task
    BY <2>2 DEF TaskOK
  <2>5. Types'
    BY <1>0, <2>3, <2>4 DEF Types
  <2>6. \A s \in Replicators : task'[s] # NoTask => TaskOK(s, task'[s], codes', opinions')
    BY <1>0, <2>2, <2>3 DEF IInv
  <2> QED BY <2>3, <2>5, <2>6 DEF IInv
<1>2. CASE task[r].tx # o.tx
  <2> DEFINE new == /\ MayBeRead(r, o.tx)
                    /\ \A q \in early[r].opinions : <<q.tx, q.from>> # <<o.tx, o.from>>
             os == IF new THEN early[r].opinions \cup {o} ELSE early[r].opinions
             e == [early[r] EXCEPT !.opinions = os]
  <2>1. early' = [early EXCEPT ![r] = e]
        /\ UNCHANGED <<chain, inbox, drive, task, codes, opinions>>
    BY <1>2 DEF OnVerificationOpinionReceived
  <2>2. os \in SUBSET Opinion /\ os \subseteq opinions
    BY <1>0 DEF EarlyOK, EarlyType
  <2>3. IsFiniteSet(os)
    BY <1>0, FS_AddElement DEF EarlyOK
  <2>4. Unique(os)
    BY <1>0 DEF EarlyOK, Unique
  <2> HIDE DEF os
  <2>5. /\ e \in EarlyType
        /\ e.opinions = os /\ e.codes = early[r].codes
    BY <1>0, <2>2 DEF EarlyType
  <2>6. EarlyOK(r, e, codes, opinions)
    BY <1>0, <2>2, <2>3, <2>4, <2>5 DEF EarlyOK
  <2> HIDE DEF e
  <2> QED BY <2>1, <2>5, <2>6, EarlyKeeps
<1> QED BY <1>1, <1>2

\* A crash loses what the replicator knew, not what it has shared.
LEMMA CrashSteps ==
  ASSUME IInv, NEW r \in Replicators, Crash(r) \/ Restart(r)
  PROVE  IInv'
<1>0. /\ drive[r] \in DriveType /\ inbox \in [Replicators -> Seq(Posted)]
      /\ \A s \in Replicators : EarlyOK(s, early[s], codes, opinions)
      /\ early \in [Replicators -> EarlyType]
      /\ task \in [Replicators -> Task \cup {NoTask}]
      /\ chain \in ChainType
      /\ task[r] # NoTask => TaskOK(r, task[r], codes, opinions)
  BY DEF IInv, Types
<1>1. ASSUME Crash(r) PROVE IInv'
  <2> DEFINE d == [drive[r] EXCEPT !.phase = "down", !.request = 0,
                                   !.target = drive[r].last]
  <2>1. d \in DriveType /\ d.damaged = drive[r].damaged
    BY <1>0, Numbers DEF DriveType
  <2>2. /\ drive' = [drive EXCEPT ![r] = d] /\ task' = [task EXCEPT ![r] = NoTask]
        /\ early' = [early EXCEPT ![r] = NothingEarly]
        /\ inbox' = [inbox EXCEPT ![r] = <<>>]
        /\ UNCHANGED <<chain, codes, opinions>>
    BY <1>1 DEF Crash
  <2>3. inbox' \in [Replicators -> Seq(Posted)]
    BY <1>0, <2>2
  <2>4. early' \in [Replicators -> EarlyType]
    BY <1>0, <2>2 DEF NothingEarly, EarlyType
  <2>5. EarlyOK(r, NothingEarly, codes, opinions)
    BY FS_EmptySet DEF EarlyOK, NothingEarly, Unique
  <2>6. \A s \in Replicators : EarlyOK(s, early'[s], codes, opinions)
    BY <1>0, <2>2, <2>5
  <2> HIDE DEF d
  <2> QED BY <2>1, <2>2, <2>3, <2>4, <2>6, DriveChanges
<1>2. ASSUME Restart(r) PROVE IInv'
  <2> DEFINE d == [drive[r] EXCEPT !.phase = "init"]
             a == [type |-> "approved", id |-> chain.last]
             b == [type |-> "start", id |-> chain.pending]
             q == IF chain.pending = 0 THEN <<>> ELSE <<b>>
  <2>1. d \in DriveType /\ d.damaged = drive[r].damaged
    BY <1>0 DEF DriveType
  <2>2. /\ drive' = [drive EXCEPT ![r] = d] /\ inbox' = [inbox EXCEPT ![r] = <<a>> \o q]
        /\ UNCHANGED <<chain, task, early, codes, opinions>>
    BY <1>2 DEF Restart
  <2>3. a \in Posted /\ (chain.pending # 0 => b \in Posted)
    BY <1>0, Numbers DEF Posted, ChainType
  <2> HIDE DEF a, b
  <2>4. q \in Seq(Posted) /\ <<a>> \in Seq(Posted)
    BY <2>3
  <2> HIDE DEF q
  <2>5. <<a>> \o q \in Seq(Posted)
    BY <2>4
  <2>6. inbox' \in [Replicators -> Seq(Posted)]
    BY <1>0, <2>2, <2>5
  <2>7. task' = [task EXCEPT ![r] = task[r]]
    BY <1>0, <2>2
  <2>8. task[r] \in Task \cup {NoTask}
    BY <1>0
  <2> HIDE DEF d
  <2> QED BY <1>0, <2>1, <2>2, <2>6, <2>7, <2>8, DriveChanges
<1> QED BY <1>1, <1>2

\* Every approval counts as a disturbance.
LEMMA BoundedKeeps ==
  ASSUME Types, Bounded, [Next]_vars
  PROVE  Bounded'
<1>0. /\ chain.last \in Nat /\ disturbances \in Nat /\ MaxDisturbances \in Nat
      /\ disturbances <= MaxDisturbances /\ chain.last <= disturbances
      /\ chain \in ChainType
  <2>1. chain \in ChainType /\ chain.last \in Modification
    BY DEF Types, ChainType
  <2>2. chain.last \in Nat
    BY <2>1, Numbers
  <2> QED BY <2>1, <2>2, VerificationAssumption DEF Bounded
<1>1. \/ disturbances' = disturbances /\ chain'.last = chain.last
      \/ /\ disturbances < MaxDisturbances /\ disturbances' = disturbances + 1
         /\ chain'.last \in {chain.last, chain.last + 1}
  <2>1. CASE ChainStart
    BY <1>0, <2>1 DEF ChainStart, ChainType
  <2>2. CASE ChainCancel
    BY <1>0, <2>2 DEF ChainCancel, ChainType
  <2>3. CASE ChainApprove
    BY <1>0, <2>3 DEF ChainApprove, ChainType
  <2>4. ASSUME NEW r \in Replicators, Step(r)
        PROVE  disturbances' = disturbances /\ chain'.last = chain.last
    <3>1. CASE OnVerifyOpinionTimer(r)
      BY <1>0, <3>1 DEF OnVerifyOpinionTimer, ChainType
    <3> QED BY <2>4, <3>1 DEF Step, OnStart, OnStop, OnApproved, Reach, Initialized,
                              VerificationCodesCompleted, OnVerifyCodeTimer
  <2>5. ASSUME NEW r \in Replicators, Deliver(r)
        PROVE  disturbances' = disturbances /\ chain'.last = chain.last
    BY <2>5 DEF Deliver, OnVerificationCodeReceived, OnVerificationOpinionReceived
  <2>6. ASSUME NEW r \in Replicators, Crash(r)
        PROVE  /\ disturbances < MaxDisturbances /\ disturbances' = disturbances + 1
               /\ chain'.last = chain.last
    BY <2>6 DEF Crash
  <2>7. ASSUME NEW r \in Replicators, Restart(r)
        PROVE  disturbances' = disturbances /\ chain'.last = chain.last
    BY <2>7 DEF Restart
  <2>8. CASE UNCHANGED vars
    BY <2>8 DEF vars
  <2> QED BY <2>1, <2>2, <2>3, <2>4, <2>5, <2>6, <2>7, <2>8 DEF Next
<1> QED BY <1>0, <1>1 DEF Bounded

Safe == IInv /\ Bounded

LEMMA InitSafe == Init => Safe
BY InitHolds, VerificationAssumption DEF Safe, Init, Bounded

LEMMA NextKeeps == Safe /\ [Next]_vars => Safe'
<1> SUFFICES ASSUME IInv, Bounded, [Next]_vars PROVE IInv' /\ Bounded'
  BY DEF Safe
<1>0. Bounded'
  BY BoundedKeeps DEF IInv
<1>1. CASE ChainStart \/ ChainCancel \/ ChainApprove
  BY <1>0, <1>1, ChainSteps
<1>2. ASSUME NEW r \in Replicators, Step(r) PROVE IInv'
  BY <1>2, DriveSteps, ShareSteps, TimerStep DEF Step
<1>3. ASSUME NEW r \in Replicators, Deliver(r) PROVE IInv'
  <2>1. ASSUME NEW c \in codes, OnVerificationCodeReceived(r, c) PROVE IInv'
    BY <2>1, ShareSteps, CodeStep
  <2>2. ASSUME NEW o \in opinions, OnVerificationOpinionReceived(r, o) PROVE IInv'
    BY <2>2, OpinionStep
  <2> QED BY <1>3, <2>1, <2>2 DEF Deliver
<1>4. ASSUME NEW r \in Replicators, Crash(r) \/ Restart(r) PROVE IInv'
  BY <1>4, CrashSteps
<1>5. CASE UNCHANGED vars
  <2>1. Types'
    BY <1>5 DEF vars, IInv, Types
  <2> QED BY <1>0, <1>5, <2>1 DEF vars, IInv
<1> QED BY <1>0, <1>1, <1>2, <1>3, <1>4, <1>5 DEF Next

------------------------------------------------------------------------------
(* What the chain says arrives in order: between two starts there is a stop, *)
(* and what was started is stopped as soon as the chain has no verification. *)

\* The drive has a verification: it runs, or waits for the drive's tree.
Active(d, t) == t # NoTask \/ d.request # 0

Is(q, i, type) == i \in DOMAIN q /\ q[i].type = type

\* Every start finds the verification before it stopped.
Alternates(q, active) ==
    /\ \A j \in Nat : Is(q, j, "start") /\ active => \E k \in Nat : k < j /\ Is(q, k, "stop")
    /\ \A i, j \in Nat : i < j /\ Is(q, i, "start") /\ Is(q, j, "start") =>
                             \E k \in Nat : i < k /\ k < j /\ Is(q, k, "stop")

\* Everything that was started will be stopped.
Ends(q, active) ==
    /\ active => \E k \in Nat : Is(q, k, "stop")
    /\ \A i \in Nat : Is(q, i, "start") => \E k \in Nat : i < k /\ Is(q, k, "stop")

\* The drive and the events it has not handled yet; nothing that came early
\* for the running verification is still kept aside.
Tidy(q, d, t, e, pending) ==
    /\ Alternates(q, Active(d, t))
    /\ pending = 0 => Ends(q, Active(d, t))
    /\ d.phase = "down" => q = <<>> /\ ~Active(d, t)
    /\ t # NoTask => /\ \A c \in e.codes : c.tx # t.tx
                     /\ \A o \in e.opinions : o.tx # t.tx

AllTidy ==
    \A r \in Replicators : Tidy(inbox[r], drive[r], task[r], early[r], chain.pending)

\* The starts and stops of a queue, in numbers.
LEMMA AppendIs ==
  ASSUME NEW q \in Seq(Posted), NEW e \in Posted, NEW type
  PROVE  /\ \A i \in Nat : Is(Append(q, e), i, type) <=>
                               Is(q, i, type) \/ (i = Len(q) + 1 /\ e.type = type)
         /\ \A i \in Nat : Is(q, i, type) => i <= Len(q)
         /\ Len(q) \in Nat
BY DEF Is

LEMMA TailIs ==
  ASSUME NEW q \in Seq(Posted), q # <<>>, NEW type
  PROVE  /\ \A i \in Nat : Is(Tail(q), i, type) <=> i > 0 /\ Is(q, i + 1, type)
         /\ \A i \in Nat : Is(q, i, type) => i > 0
         /\ Is(q, 1, type) <=> Head(q).type = type
BY DEF Is

\* A start is posted when everything before it is stopped.
LEMMA PostStart ==
  ASSUME NEW q \in Seq(Posted), NEW e \in Posted, e.type = "start",
         NEW active \in BOOLEAN, Alternates(q, active), Ends(q, active)
  PROVE  Alternates(Append(q, e), active)
<1> DEFINE p == Append(q, e)
           n == Len(q)
<1>1. /\ \A i \in Nat : Is(p, i, "start") <=> Is(q, i, "start") \/ i = n + 1
      /\ \A i \in Nat : Is(q, i, "start") => i <= n
  BY AppendIs
<1>2. /\ \A i \in Nat : Is(q, i, "stop") => Is(p, i, "stop") /\ i <= n
      /\ n \in Nat
  BY AppendIs
<1> HIDE DEF p, n
<1>3. ASSUME NEW j \in Nat, Is(p, j, "start"), active
      PROVE  \E k \in Nat : k < j /\ Is(p, k, "stop")
  <2>1. CASE Is(q, j, "start")
    BY <1>2, <1>3, <2>1 DEF Alternates
  <2>2. CASE j = n + 1
    <3>1. PICK k \in Nat : Is(q, k, "stop")
      BY <1>3 DEF Ends
    <3> QED BY <1>2, <2>2, <3>1
  <2> QED BY <1>1, <1>3, <2>1, <2>2
<1>4. ASSUME NEW i \in Nat, NEW j \in Nat, i < j, Is(p, i, "start"), Is(p, j, "start")
      PROVE  \E k \in Nat : i < k /\ k < j /\ Is(p, k, "stop")
  <2>1. CASE Is(q, j, "start")
    <3>1. Is(q, i, "start")
      BY <1>1, <1>2, <1>4, <2>1
    <3>2. PICK k \in Nat : i < k /\ k < j /\ Is(q, k, "stop")
      BY <1>4, <2>1, <3>1 DEF Alternates
    <3> QED BY <1>2, <3>2
  <2>2. CASE j = n + 1
    <3>1. Is(q, i, "start")
      BY <1>1, <1>2, <1>4, <2>2
    <3>2. PICK k \in Nat : i < k /\ Is(q, k, "stop")
      BY <3>1 DEF Ends
    <3> QED BY <1>2, <2>2, <3>2
  <2> QED BY <1>1, <1>4, <2>1, <2>2
<1> QED BY <1>3, <1>4 DEF Alternates, p

\* Another event leaves the order of the starts as it is.
LEMMA PostNoStart ==
  ASSUME NEW q \in Seq(Posted), NEW e \in Posted, e.type # "start",
         NEW active \in BOOLEAN, Alternates(q, active)
  PROVE  /\ Alternates(Append(q, e), active)
         /\ e.type = "stop" \/ Ends(q, active) => Ends(Append(q, e), active)
<1> DEFINE p == Append(q, e)
           n == Len(q)
<1>1. \A i \in Nat : (Is(p, i, "start") <=> Is(q, i, "start")) /\ (Is(q, i, "start") => i <= n)
  BY AppendIs
<1>2. /\ \A i \in Nat : Is(q, i, "stop") => Is(p, i, "stop")
      /\ e.type = "stop" => Is(p, n + 1, "stop")
      /\ n \in Nat
  <2>1. /\ \A i \in Nat : Is(p, i, "stop") <=> Is(q, i, "stop") \/ (i = n + 1 /\ e.type = "stop")
        /\ n \in Nat
    BY AppendIs
  <2>2. n + 1 \in Nat
    BY <2>1
  <2> QED BY <2>1, <2>2
<1> HIDE DEF p, n
<1>3. Alternates(p, active)
  <2>1. ASSUME NEW j \in Nat, Is(p, j, "start"), active
        PROVE  \E k \in Nat : k < j /\ Is(p, k, "stop")
    <3>1. PICK k \in Nat : k < j /\ Is(q, k, "stop")
      BY <1>1, <2>1 DEF Alternates
    <3> QED BY <1>2, <3>1
  <2>2. ASSUME NEW i \in Nat, NEW j \in Nat, i < j, Is(p, i, "start"), Is(p, j, "start")
        PROVE  \E k \in Nat : i < k /\ k < j /\ Is(p, k, "stop")
    <3>1. PICK k \in Nat : i < k /\ k < j /\ Is(q, k, "stop")
      BY <1>1, <2>2 DEF Alternates
    <3> QED BY <1>2, <3>1
  <2> QED BY <2>1, <2>2 DEF Alternates
<1>4. ASSUME e.type = "stop" PROVE Ends(p, active)
  <2>1. \A i \in Nat : Is(p, i, "start") => i < n + 1
    BY <1>1, <1>2
  <2> QED BY <1>2, <1>4, <2>1 DEF Ends
<1>5. ASSUME Ends(q, active) PROVE Ends(p, active)
  BY <1>1, <1>2, <1>5 DEF Ends
<1> QED BY <1>3, <1>4, <1>5 DEF p

\* An event is handled; after a start the drive has a verification, after any
\* other one it has none.
LEMMA TakeKeeps ==
  ASSUME NEW q \in Seq(Posted), q # <<>>, NEW active \in BOOLEAN, Alternates(q, active),
         NEW now \in BOOLEAN, now => Head(q).type = "start"
  PROVE  /\ Alternates(Tail(q), now)
         /\ Ends(q, active) => Ends(Tail(q), now)
<1> DEFINE p == Tail(q)
<1>1. /\ \A i \in Nat : Is(p, i, "start") <=> i > 0 /\ Is(q, i + 1, "start")
      /\ Is(q, 1, "start") <=> Head(q).type = "start"
  BY TailIs
<1>2. \A k \in Nat : k > 1 /\ Is(q, k, "stop") => k - 1 \in Nat /\ Is(p, k - 1, "stop")
  <2>1. \A i \in Nat : Is(p, i, "stop") <=> i > 0 /\ Is(q, i + 1, "stop")
    BY TailIs
  <2> SUFFICES ASSUME NEW k \in Nat, k > 1, Is(q, k, "stop")
               PROVE  k - 1 \in Nat /\ Is(p, k - 1, "stop")
    OBVIOUS
  <2>2. k - 1 \in Nat /\ k - 1 > 0 /\ (k - 1) + 1 = k
    OBVIOUS
  <2> QED BY <2>1, <2>2
<1> HIDE DEF p
<1>3. ASSUME NEW j \in Nat, Is(p, j, "start"), now
      PROVE  \E k \in Nat : k < j /\ Is(p, k, "stop")
  <2>1. PICK k \in Nat : 1 < k /\ k < j + 1 /\ Is(q, k, "stop")
    BY <1>1, <1>3 DEF Alternates
  <2> QED BY <1>2, <2>1
<1>4. ASSUME NEW i \in Nat, NEW j \in Nat, i < j, Is(p, i, "start"), Is(p, j, "start")
      PROVE  \E k \in Nat : i < k /\ k < j /\ Is(p, k, "stop")
  <2>1. PICK k \in Nat : i + 1 < k /\ k < j + 1 /\ Is(q, k, "stop")
    BY <1>1, <1>4 DEF Alternates
  <2> QED BY <1>2, <2>1
<1>5. ASSUME Ends(q, active), now PROVE \E k \in Nat : Is(p, k, "stop")
  <2>1. PICK k \in Nat : 1 < k /\ Is(q, k, "stop")
    BY <1>1, <1>5 DEF Ends
  <2> QED BY <1>2, <2>1
<1>6. ASSUME Ends(q, active), NEW i \in Nat, Is(p, i, "start")
      PROVE  \E k \in Nat : i < k /\ Is(p, k, "stop")
  <2>1. PICK k \in Nat : i + 1 < k /\ Is(q, k, "stop")
    BY <1>1, <1>6 DEF Ends
  <2> QED BY <1>2, <2>1
<1>7. Alternates(p, now)
  BY <1>3, <1>4 DEF Alternates
<1>8. Ends(q, active) => Ends(p, now)
  BY <1>5, <1>6 DEF Ends
<1> QED BY <1>7, <1>8 DEF p

\* One drive changes; the chain does not.
LEMMA OneTidy ==
  ASSUME Types, AllTidy, NEW r \in Replicators, NEW q, NEW d, NEW t, NEW e,
         Tidy(q, d, t, e, chain.pending),
         inbox' = [inbox EXCEPT ![r] = q], drive' = [drive EXCEPT ![r] = d],
         task' = [task EXCEPT ![r] = t], early' = [early EXCEPT ![r] = e],
         chain' = chain
  PROVE  AllTidy'
<1> SUFFICES ASSUME NEW s \in Replicators
             PROVE  Tidy(inbox'[s], drive'[s], task'[s], early'[s], chain'.pending)
  BY DEF AllTidy
<1>1. CASE s = r
  BY <1>1 DEF Types
<1>2. CASE s # r
  <2>1. /\ inbox'[s] = inbox[s] /\ drive'[s] = drive[s]
        /\ task'[s] = task[s] /\ early'[s] = early[s]
    BY <1>2 DEF Types
  <2> QED BY <2>1 DEF AllTidy
<1> QED BY <1>1, <1>2

LEMMA InitTidy == Init => AllTidy
<1> SUFFICES ASSUME Init, NEW r \in Replicators
             PROVE  Tidy(inbox[r], drive[r], task[r], early[r], chain.pending)
  BY DEF AllTidy
<1>1. inbox[r] = <<>> /\ task[r] = NoTask /\ drive[r].request = 0 /\ drive[r].phase = "up"
  BY DEF Init
<1> QED BY <1>1 DEF Tidy, Alternates, Ends, Active, Is

\* Tasks go on, but none begins or ends.
TasksGoOn ==
    \A r \in Replicators : /\ task'[r] = NoTask <=> task[r] = NoTask
                           /\ task'[r].tx = task[r].tx

\* What the chain posts to those that run.
LEMMA PostTidy ==
  ASSUME Types, AllTidy, NEW type, NEW id, [type |-> type, id |-> id] \in Posted,
         inbox' = Post(type, id), UNCHANGED <<drive, early>>, TasksGoOn,
         type = "start" => chain.pending = 0,
         chain'.pending = 0 => type = "stop" \/ (type # "start" /\ chain.pending = 0)
  PROVE  AllTidy'
<1> SUFFICES ASSUME NEW r \in Replicators
             PROVE  Tidy(inbox'[r], drive[r], task'[r], early[r], chain'.pending)
  BY DEF AllTidy
<1> DEFINE e == [type |-> type, id |-> id]
           active == Active(drive[r], task[r])
<1>0. /\ Tidy(inbox[r], drive[r], task[r], early[r], chain.pending)
      /\ inbox[r] \in Seq(Posted) /\ e \in Posted /\ e.type = type /\ active \in BOOLEAN
  BY DEF AllTidy, Types, Active
<1>1. inbox'[r] = IF drive[r].phase = "down" THEN inbox[r] ELSE Append(inbox[r], e)
  BY DEF Post
<1>2. Active(drive[r], task'[r]) = active
  BY DEF TasksGoOn, Active
<1>3. task'[r] # NoTask => /\ \A c \in early[r].codes : c.tx # task'[r].tx
                           /\ \A o \in early[r].opinions : o.tx # task'[r].tx
  BY <1>0 DEF TasksGoOn, Tidy
<1> HIDE DEF e
<1>4. CASE drive[r].phase = "down"
  <2>1. inbox'[r] = <<>> /\ active = FALSE
    BY <1>0, <1>1, <1>4 DEF Tidy
  <2>2. Alternates(inbox'[r], active) /\ Ends(inbox'[r], active)
    BY <2>1 DEF Alternates, Ends, Is
  <2> HIDE DEF active
  <2> QED BY <1>2, <1>3, <2>1, <2>2 DEF Tidy
<1>5. CASE drive[r].phase # "down"
  <2>1. inbox'[r] = Append(inbox[r], e)
    BY <1>1, <1>5
  <2>2. Alternates(inbox[r], active) /\ (chain.pending = 0 => Ends(inbox[r], active))
    BY <1>0 DEF Tidy
  <2> HIDE DEF active
  <2>3. Alternates(inbox'[r], active)
    <3>1. CASE type = "start"
      BY <1>0, <2>1, <2>2, <3>1, PostStart
    <3>2. CASE type # "start"
      BY <1>0, <2>1, <2>2, <3>2, PostNoStart
    <3> QED BY <3>1, <3>2
  <2>4. chain'.pending = 0 => Ends(inbox'[r], active)
    BY <1>0, <2>1, <2>2, PostNoStart
  <2> QED BY <1>2, <1>3, <1>5, <2>3, <2>4 DEF Tidy
<1> QED BY <1>4, <1>5

LEMMA ChainTidy ==
  ASSUME Types, Bounded, AllTidy, ChainStart \/ ChainCancel \/ ChainApprove
  PROVE  AllTidy'
<1>0. chain \in ChainType
  BY DEF Types
<1>1. CASE ChainStart
  <2> DEFINE tx == chain.started + 1
  <2>1. tx \in Tx
    BY <1>0, <1>1, VerificationAssumption DEF ChainStart, ChainType, Tx, TxOrNone
  <2>2. /\ chain'.pending = tx /\ chain.pending = 0 /\ inbox' = Post("start", tx)
        /\ UNCHANGED <<drive, task, early>>
    BY <1>0, <1>1 DEF ChainStart, ChainType
  <2> HIDE DEF tx
  <2>3. [type |-> "start", id |-> tx] \in Posted /\ tx # 0
    BY <2>1, Numbers DEF Posted
  <2> QED BY <2>2, <2>3, PostTidy DEF TasksGoOn
<1>2. CASE ChainCancel
  <2>1. chain.pending \in Tx
    BY <1>0, <1>2, Numbers DEF ChainCancel, ChainType
  <2>2. [type |-> "stop", id |-> chain.pending] \in Posted
    BY <2>1 DEF Posted
  <2> QED BY <1>2, <2>2, PostTidy DEF ChainCancel, TasksGoOn
<1>3. CASE ChainApprove
  <2> DEFINE m == chain.last + 1
  <2>1. m \in Modification
    BY <1>0, <1>3, VerificationAssumption DEF ChainApprove, Bounded, Modification, ChainType
  <2>2. /\ chain'.pending = chain.pending /\ inbox' = Post("approved", m)
        /\ UNCHANGED <<drive, task, early>>
    BY <1>0, <1>3 DEF ChainApprove, ChainType
  <2> HIDE DEF m
  <2>3. [type |-> "approved", id |-> m] \in Posted
    BY <2>1 DEF Posted
  <2> QED BY <2>2, <2>3, PostTidy DEF TasksGoOn
<1> QED BY <1>1, <1>2, <1>3

\* A task keeps its verification.
LEMMA SameTx ==
  ASSUME NEW t \in Task
  PROVE  /\ \A op : ProcessedVerificationOpinion(t, op).tx = t.tx
         /\ \A r, late : VerifyCodeTimerExpired(r, t, late).tx = t.tx
         /\ \A r : CheckVerifyCodeNumber(r, t).tx = t.tx
         /\ \A r, c : ProcessedVerificationCode(r, t, c).tx = t.tx
<1> DEFINE Known(u) == u = [u EXCEPT !.tx = u.tx] /\ DOMAIN u = DOMAIN t /\ u.tx = t.tx
<1>1. ASSUME NEW u, Known(u), NEW o PROVE Known(ProcessedVerificationOpinion(u, o))
  <2>1. DOMAIN t = {"tx", "calculated", "received", "codeTimer", "formed", "collected",
                    "opinionTimer"}
    BY DEF Task
  <2>2. ASSUME NEW all, NEW timer
        PROVE  Known([u EXCEPT !.collected = all, !.opinionTimer = timer])
    BY <1>1, <2>1
  <2>3. Known([u EXCEPT !.collected = {o}])
    BY <1>1, <2>1
  <2> HIDE DEF Known
  <2> QED BY <1>1, <2>2, <2>3 DEF ProcessedVerificationOpinion
<1>2. ASSUME NEW r, NEW u, Known(u), NEW l PROVE Known(VerifyCodeTimerExpired(r, u, l))
  <2>1. Known([u EXCEPT !.formed = TRUE])
    BY <1>2 DEF Task
  <2> HIDE DEF Known
  <2> QED BY <2>1, <1>1 DEF VerifyCodeTimerExpired
<1>3. ASSUME NEW r, NEW u, Known(u) PROVE Known(CheckVerifyCodeNumber(r, u))
  <2>1. Known([u EXCEPT !.codeTimer = TRUE])
    BY <1>3 DEF Task
  <2>2. Known(VerifyCodeTimerExpired(r, u, FALSE))
    BY <1>2, <1>3
  <2> HIDE DEF Known
  <2> QED BY <1>3, <2>1, <2>2 DEF CheckVerifyCodeNumber
<1>4. Known(t)
  BY DEF Task
<1>5. ASSUME NEW r, NEW c PROVE Known(ProcessedVerificationCode(r, t, c))
  <2>1. Known([t EXCEPT !.received = @ \cup {c.from}])
    BY DEF Task
  <2> HIDE DEF Known
  <2> QED BY <1>3, <1>4, <2>1 DEF ProcessedVerificationCode
<1>6. /\ \A op : Known(ProcessedVerificationOpinion(t, op))
      /\ \A r, late : Known(VerifyCodeTimerExpired(r, t, late))
      /\ \A r : Known(CheckVerifyCodeNumber(r, t))
      /\ \A r, c : Known(ProcessedVerificationCode(r, t, c))
  <2> HIDE DEF Known
  <2> QED BY <1>1, <1>2, <1>3, <1>4, <1>5
<1> QED BY <1>6

LEMMA GoOnTidy ==
  ASSUME AllTidy, TasksGoOn, UNCHANGED <<chain, inbox, drive, early>>
  PROVE  AllTidy'
<1> SUFFICES ASSUME NEW r \in Replicators
             PROVE  Tidy(inbox[r], drive[r], task'[r], early[r], chain.pending)
  BY DEF AllTidy
<1>1. Active(drive[r], task'[r]) = Active(drive[r], task[r])
  BY DEF TasksGoOn, Active
<1> QED BY <1>1 DEF AllTidy, Tidy, TasksGoOn

\* One task goes on.
LEMMA OneGoesOn ==
  ASSUME Types, NEW r \in Replicators, task[r] # NoTask, NEW t, t.tx = task[r].tx,
         task' = [task EXCEPT ![r] = t]
  PROVE  TasksGoOn
<1>1. task \in [Replicators -> Task \cup {NoTask}] /\ task[r] \in Task
  BY DEF Types
<1>2. t # NoTask
  BY <1>1, Numbers DEF Task, NoTask
<1> QED BY <1>1, <1>2 DEF TasksGoOn

LEMMA TaskTidy ==
  ASSUME Types, AllTidy, NEW r \in Replicators,
         VerificationCodesCompleted(r) \/ OnVerifyCodeTimer(r) \/ OnVerifyOpinionTimer(r)
  PROVE  AllTidy'
<1>0. /\ task \in [Replicators -> Task \cup {NoTask}] /\ task[r] \in Task /\ task[r] # NoTask
      /\ chain \in ChainType
  BY DEF Types, VerificationCodesCompleted, OnVerifyCodeTimer, OnVerifyOpinionTimer
<1>1. CASE VerificationCodesCompleted(r)
  <2> DEFINE u == [task[r] EXCEPT !.calculated = TRUE]
  <2>1. u \in Task /\ u.tx = task[r].tx
    BY <1>0 DEF Task
  <2> HIDE DEF u
  <2>2. CheckVerifyCodeNumber(r, u).tx = task[r].tx
    BY <2>1, SameTx
  <2>3. /\ task' = [task EXCEPT ![r] = CheckVerifyCodeNumber(r, u)]
        /\ UNCHANGED <<chain, inbox, drive, early>>
    BY <1>1 DEF VerificationCodesCompleted, u
  <2> QED BY <1>0, <2>2, <2>3, OneGoesOn, GoOnTidy
<1>2. CASE OnVerifyCodeTimer(r)
  <2>1. VerifyCodeTimerExpired(r, task[r], TRUE).tx = task[r].tx
    <3>1. task[r] \in Task
      BY <1>0
    <3>2. \A x, late : VerifyCodeTimerExpired(x, task[r], late).tx = task[r].tx
      BY <3>1, SameTx
    <3> QED BY <3>2, Zenon
  <2> QED BY <1>0, <1>2, <2>1, OneGoesOn, GoOnTidy DEF OnVerifyCodeTimer
<1>3. CASE OnVerifyOpinionTimer(r)
  <2> DEFINE u == [task[r] EXCEPT !.opinionTimer = "expired"]
  <2>1. u.tx = task[r].tx
    BY <1>0 DEF Task
  <2>2. task' = [task EXCEPT ![r] = u] /\ UNCHANGED <<drive, early>>
    BY <1>3 DEF OnVerifyOpinionTimer
  <2> HIDE DEF u
  <2>3. TasksGoOn
    BY <1>0, <2>1, <2>2, OneGoesOn
  <2>4. CASE chain.pending = task[r].tx
    <3>1. [type |-> "stop", id |-> task[r].tx] \in Posted
      BY <1>0 DEF Posted, Task
    <3>2. inbox' = Post("stop", task[r].tx)
      BY <1>3, <2>4 DEF OnVerifyOpinionTimer
    <3> QED BY <2>2, <2>3, <3>1, <3>2, PostTidy
  <2>5. CASE chain.pending # task[r].tx
    BY <1>3, <2>2, <2>3, <2>5, GoOnTidy DEF OnVerifyOpinionTimer
  <2> QED BY <2>4, <2>5
<1> QED BY <1>1, <1>2, <1>3

LEMMA DeliverTidy ==
  ASSUME Types, AllTidy, NEW r \in Replicators, Deliver(r)
  PROVE  AllTidy'
<1>0. /\ task \in [Replicators -> Task \cup {NoTask}] /\ task[r] \in Task \cup {NoTask}
      /\ early \in [Replicators -> EarlyType] /\ early[r] \in EarlyType
      /\ codes \subseteq Code /\ opinions \subseteq Opinion
      /\ inbox = [inbox EXCEPT ![r] = inbox[r]] /\ drive = [drive EXCEPT ![r] = drive[r]]
      /\ task = [task EXCEPT ![r] = task[r]]
      /\ Tidy(inbox[r], drive[r], task[r], early[r], chain.pending)
  BY DEF Types, AllTidy
<1>1. ASSUME NEW e, UNCHANGED <<chain, inbox, drive, task>>,
             early' = [early EXCEPT ![r] = e],
             \A c \in e.codes : c \in early[r].codes \/ c.tx # task[r].tx,
             \A o \in e.opinions : o \in early[r].opinions \/ o.tx # task[r].tx
      PROVE  AllTidy'
  <2>1. Tidy(inbox[r], drive[r], task[r], e, chain.pending)
    BY <1>0, <1>1 DEF Tidy
  <2> QED BY <1>0, <1>1, <2>1, OneTidy
<1>2. ASSUME NEW c \in codes, OnVerificationCodeReceived(r, c) PROVE AllTidy'
  <2>1. CASE task[r].tx = c.tx
    <3>1. task[r] # NoTask
      BY <1>0, <2>1, Numbers DEF Code, NoTask
    <3>2. ProcessedVerificationCode(r, task[r], c).tx = task[r].tx
      <4>1. task[r] \in Task
        BY <1>0, <3>1
      <4> QED BY <4>1, SameTx
    <3>3. /\ task' = [task EXCEPT ![r] = ProcessedVerificationCode(r, task[r], c)]
          /\ UNCHANGED <<chain, inbox, drive, early>>
      BY <1>2, <2>1 DEF OnVerificationCodeReceived
    <3> QED BY <3>1, <3>2, <3>3, OneGoesOn, GoOnTidy
  <2>2. CASE task[r].tx # c.tx
    <3> DEFINE cs == IF MayBeRead(r, c.tx) THEN early[r].codes \cup {c} ELSE early[r].codes
               e == [early[r] EXCEPT !.codes = cs]
    <3>1. early' = [early EXCEPT ![r] = e] /\ UNCHANGED <<chain, inbox, drive, task>>
      BY <1>2, <2>2 DEF OnVerificationCodeReceived
    <3>2. \A k \in cs : k \in early[r].codes \/ k.tx # task[r].tx
      BY <2>2
    <3> HIDE DEF cs
    <3>3. e.codes = cs /\ e.opinions = early[r].opinions
      BY <1>0 DEF EarlyType
    <3> HIDE DEF e
    <3> QED BY <1>1, <3>1, <3>2, <3>3
  <2> QED BY <2>1, <2>2
<1>3. ASSUME NEW o \in opinions, OnVerificationOpinionReceived(r, o) PROVE AllTidy'
  <2>1. CASE task[r].tx = o.tx
    <3>1. task[r] # NoTask
      BY <1>0, <2>1, Numbers DEF Opinion, NoTask
    <3>2. ProcessedVerificationOpinion(task[r], o).tx = task[r].tx
      BY <1>0, <3>1, SameTx
    <3>3. /\ task' = [task EXCEPT ![r] = ProcessedVerificationOpinion(task[r], o)]
          /\ UNCHANGED <<chain, inbox, drive, early>>
      BY <1>3, <2>1 DEF OnVerificationOpinionReceived
    <3> QED BY <3>1, <3>2, <3>3, OneGoesOn, GoOnTidy
  <2>2. CASE task[r].tx # o.tx
    <3> DEFINE new == /\ MayBeRead(r, o.tx)
                      /\ \A q \in early[r].opinions : <<q.tx, q.from>> # <<o.tx, o.from>>
               os == IF new THEN early[r].opinions \cup {o} ELSE early[r].opinions
               e == [early[r] EXCEPT !.opinions = os]
    <3>1. early' = [early EXCEPT ![r] = e] /\ UNCHANGED <<chain, inbox, drive, task>>
      BY <1>3, <2>2 DEF OnVerificationOpinionReceived
    <3>2. \A k \in os : k \in early[r].opinions \/ k.tx # task[r].tx
      BY <2>2
    <3> HIDE DEF os
    <3>3. e.opinions = os /\ e.codes = early[r].codes
      BY <1>0 DEF EarlyType
    <3> HIDE DEF e
    <3> QED BY <1>1, <3>1, <3>2, <3>3
  <2> QED BY <2>1, <2>2
<1> QED BY <1>2, <1>3 DEF Deliver

\* runNextTask may begin the deferred verification, and takes over what came
\* early for it.
LEMMA DeferredTidy ==
  ASSUME Types, AllTidy, NEW r \in Replicators, NEW q, NEW d \in DriveType,
         d.phase # "down", RunDeferred(r, d), chain' = chain,
         inbox' = [inbox EXCEPT ![r] = q],
         Alternates(q, Active(d, task[r])),
         chain.pending = 0 => Ends(q, Active(d, task[r]))
  PROVE  AllTidy'
<1>0. /\ task \in [Replicators -> Task \cup {NoTask}]
      /\ early \in [Replicators -> EarlyType] /\ early[r] \in EarlyType
      /\ Tidy(inbox[r], drive[r], task[r], early[r], chain.pending)
  BY DEF Types, AllTidy
<1>1. CASE d.request # 0 /\ d.phase = "up" /\ d.last = chain.about[d.request]
  <2> DEFINE e == [d EXCEPT !.request = 0]
             t == NewTask(r, d.request)
             f == [early[r] EXCEPT !.codes = {c \in @ : c.tx # d.request},
                                   !.opinions = {o \in @ : o.tx # d.request}]
  <2>1. task' = [task EXCEPT ![r] = t] /\ drive' = [drive EXCEPT ![r] = e]
        /\ early' = [early EXCEPT ![r] = f]
    BY <1>1 DEF RunDeferred, RunVerificationTask
  <2>2. t.tx = d.request /\ t # NoTask
    BY <1>1 DEF NewTask, NoTask
  <2>3. e.phase # "down"
    BY DEF DriveType
  <2>4. /\ \A c \in f.codes : c.tx # d.request
        /\ \A o \in f.opinions : o.tx # d.request
    BY <1>0 DEF EarlyType
  <2>5. Active(d, task[r]) = Active(e, t)
    BY <1>1, <2>2 DEF Active
  <2> HIDE DEF e, t, f
  <2>6. Tidy(q, e, t, f, chain.pending)
    BY <2>2, <2>3, <2>4, <2>5 DEF Tidy
  <2> QED BY <2>1, <2>6, OneTidy
<1>2. CASE ~(d.request # 0 /\ d.phase = "up" /\ d.last = chain.about[d.request])
  <2>1. drive' = [drive EXCEPT ![r] = d] /\ UNCHANGED <<task, early>>
    BY <1>2 DEF RunDeferred
  <2>2. task' = [task EXCEPT ![r] = task[r]] /\ early' = [early EXCEPT ![r] = early[r]]
    BY <1>0, <2>1
  <2>3. Tidy(q, d, task[r], early[r], chain.pending)
    BY <1>0 DEF Tidy
  <2>4. drive' = [drive EXCEPT ![r] = d]
    BY <2>1
  <2> QED BY <2>2, <2>3, <2>4, OneTidy
<1> QED BY <1>1, <1>2

LEMMA DriveTidy ==
  ASSUME Types, AllTidy, NEW r \in Replicators,
         OnStart(r) \/ OnStop(r) \/ OnApproved(r) \/ Reach(r) \/ Initialized(r)
  PROVE  AllTidy'
<1>0. /\ drive[r] \in DriveType /\ inbox[r] \in Seq(Posted)
      /\ inbox \in [Replicators -> Seq(Posted)]
      /\ early \in [Replicators -> EarlyType]
      /\ Tidy(inbox[r], drive[r], task[r], early[r], chain.pending)
      /\ Active(drive[r], task[r]) \in BOOLEAN
  BY DEF Types, AllTidy, Active
<1>1. /\ Alternates(inbox[r], Active(drive[r], task[r]))
      /\ chain.pending = 0 => Ends(inbox[r], Active(drive[r], task[r]))
  BY <1>0 DEF Tidy
<1>2. ASSUME OnStart(r) PROVE AllTidy'
  <2> DEFINE d == [drive[r] EXCEPT !.request = Head(inbox[r]).id]
             now == Active(d, task[r])
  <2>1. /\ inbox[r] # <<>> /\ Head(inbox[r]).type = "start" /\ drive[r].phase # "down"
        /\ inbox' = [inbox EXCEPT ![r] = Tail(inbox[r])] /\ RunDeferred(r, d) /\ chain' = chain
    BY <1>2 DEF OnStart, Take
  <2>2. Head(inbox[r]) \in Posted
    BY <1>0, <2>1
  <2>3. Head(inbox[r]).id \in TxOrNone
    BY <2>1, <2>2, PostedIds, Numbers
  <2>4. d \in DriveType /\ d.phase # "down"
    BY <1>0, <2>1, <2>3 DEF DriveType
  <2>5. now \in BOOLEAN
    BY DEF Active
  <2>6. /\ Alternates(Tail(inbox[r]), now)
        /\ chain.pending = 0 => Ends(Tail(inbox[r]), now)
    <3> HIDE DEF now
    <3> QED BY <1>0, <1>1, <2>1, <2>5, TakeKeeps
  <2> HIDE DEF d
  <2> QED BY <2>1, <2>4, <2>6, DeferredTidy
<1>3. ASSUME NEW d \in DriveType, d.phase # "down", CancelVerification(r, d),
             Take(r, "stop") \/ Take(r, "approved"), UNCHANGED <<chain, early>>
      PROVE  AllTidy'
  <2> DEFINE e == [d EXCEPT !.request = 0]
  <2>1. /\ inbox[r] # <<>>
        /\ inbox' = [inbox EXCEPT ![r] = Tail(inbox[r])]
        /\ drive' = [drive EXCEPT ![r] = e] /\ task' = [task EXCEPT ![r] = NoTask]
        /\ early' = [early EXCEPT ![r] = early[r]]
    BY <1>0, <1>3 DEF Take, CancelVerification
  <2>2. Active(e, NoTask) = FALSE /\ e.phase # "down"
    BY <1>3 DEF Active, DriveType
  <2>3. /\ Alternates(Tail(inbox[r]), FALSE)
        /\ chain.pending = 0 => Ends(Tail(inbox[r]), FALSE)
    BY <1>0, <1>1, <2>1, TakeKeeps
  <2> HIDE DEF e
  <2>4. Tidy(Tail(inbox[r]), e, NoTask, early[r], chain.pending)
    BY <2>2, <2>3 DEF Tidy
  <2> QED BY <1>3, <2>1, <2>4, OneTidy
<1>4. ASSUME OnStop(r) PROVE AllTidy'
  BY <1>0, <1>3, <1>4 DEF OnStop, Take
<1>5. ASSUME OnApproved(r) PROVE AllTidy'
  <2> DEFINE d == [drive[r] EXCEPT !.target = Head(inbox[r]).id]
  <2>1. /\ Take(r, "approved") /\ CancelVerification(r, d) /\ UNCHANGED <<chain, early>>
        /\ inbox[r] # <<>> /\ Head(inbox[r]).type = "approved" /\ drive[r].phase # "down"
    BY <1>5 DEF OnApproved, Take
  <2>2. Head(inbox[r]) \in Posted
    BY <1>0, <2>1
  <2>3. Head(inbox[r]).id \in Modification
    BY <2>1, <2>2, PostedIds
  <2>4. d \in DriveType /\ d.phase # "down"
    BY <1>0, <2>1, <2>3 DEF DriveType
  <2> HIDE DEF d
  <2> QED BY <1>3, <2>1, <2>4
<1>6. ASSUME NEW d \in DriveType, d.phase # "down", RunDeferred(r, d),
             d.request = drive[r].request, UNCHANGED <<chain, inbox>>
      PROVE  AllTidy'
  <2>1. Active(d, task[r]) = Active(drive[r], task[r])
    BY <1>6 DEF Active
  <2>2. inbox' = [inbox EXCEPT ![r] = inbox[r]]
    BY <1>0, <1>6
  <2> QED BY <1>1, <1>6, <2>1, <2>2, DeferredTidy
<1>7. ASSUME Reach(r) PROVE AllTidy'
  <2> DEFINE d == [drive[r] EXCEPT !.last = drive[r].target]
  <2>1. drive[r].phase = "up" /\ RunDeferred(r, d) /\ UNCHANGED <<chain, inbox>>
    BY <1>7 DEF Reach
  <2>2. d \in DriveType /\ d.phase # "down" /\ d.request = drive[r].request
    BY <1>0, <2>1 DEF DriveType
  <2> HIDE DEF d
  <2> QED BY <1>6, <2>1, <2>2
<1>8. ASSUME Initialized(r) PROVE AllTidy'
  <2> DEFINE d == [drive[r] EXCEPT !.phase = "up"]
  <2>1. RunDeferred(r, d) /\ UNCHANGED <<chain, inbox>>
    BY <1>8 DEF Initialized
  <2>2. d \in DriveType /\ d.phase # "down" /\ d.request = drive[r].request
    BY <1>0 DEF DriveType
  <2> HIDE DEF d
  <2> QED BY <1>6, <2>1, <2>2
<1> QED BY <1>2, <1>4, <1>5, <1>7, <1>8

\* A replicator that comes back is told of the last approval and the pending
\* verification, and knows nothing else.
LEMMA CrashTidy ==
  ASSUME Types, AllTidy, NEW r \in Replicators, Crash(r) \/ Restart(r)
  PROVE  AllTidy'
<1>0. /\ drive[r] \in DriveType /\ chain \in ChainType
      /\ early \in [Replicators -> EarlyType] /\ task \in [Replicators -> Task \cup {NoTask}]
      /\ Tidy(inbox[r], drive[r], task[r], early[r], chain.pending)
  BY DEF Types, AllTidy
<1>1. CASE Crash(r)
  <2> DEFINE d == [drive[r] EXCEPT !.phase = "down", !.request = 0,
                                   !.target = drive[r].last]
  <2>1. /\ drive' = [drive EXCEPT ![r] = d] /\ task' = [task EXCEPT ![r] = NoTask]
        /\ early' = [early EXCEPT ![r] = NothingEarly]
        /\ inbox' = [inbox EXCEPT ![r] = <<>>] /\ chain' = chain
    BY <1>1 DEF Crash
  <2>2. Active(d, NoTask) = FALSE
    BY <1>0 DEF Active, DriveType
  <2> HIDE DEF d
  <2>3. Alternates(<<>>, FALSE) /\ Ends(<<>>, FALSE)
    BY DEF Alternates, Ends, Is
  <2>4. Tidy(<<>>, d, NoTask, NothingEarly, chain.pending)
    BY <2>2, <2>3 DEF Tidy
  <2> QED BY <2>1, <2>4, OneTidy
<1>2. CASE Restart(r)
  <2> DEFINE d == [drive[r] EXCEPT !.phase = "init"]
             a == [type |-> "approved", id |-> chain.last]
             b == [type |-> "start", id |-> chain.pending]
             q == <<a>> \o (IF chain.pending = 0 THEN <<>> ELSE <<b>>)
  <2>1. /\ drive' = [drive EXCEPT ![r] = d] /\ inbox' = [inbox EXCEPT ![r] = q]
        /\ task' = [task EXCEPT ![r] = task[r]] /\ early' = [early EXCEPT ![r] = early[r]]
        /\ chain' = chain /\ drive[r].phase = "down"
    BY <1>0, <1>2 DEF Restart
  <2>2. ~Active(drive[r], task[r])
    BY <1>0, <2>1 DEF Tidy
  <2>3. Active(d, task[r]) = FALSE /\ d.phase = "init" /\ task[r] = NoTask
    BY <1>0, <2>2 DEF Active, DriveType
  <2>4. \A i \in Nat : Is(q, i, "start") => i = 2 /\ chain.pending # 0
    <3>1. a.type = "approved"
      OBVIOUS
    <3> HIDE DEF a, b
    <3>2. CASE chain.pending = 0
      <4>1. q = <<a>>
        BY <3>2
      <4> QED BY <3>1, <4>1 DEF Is
    <3>3. CASE chain.pending # 0
      <4>1. q = <<a>> \o <<b>>
        BY <3>3
      <4>2. /\ <<a>> \in Seq({a, b}) /\ Len(<<a>>) = 1 /\ <<a>>[1] = a
            /\ <<b>> \in Seq({a, b}) /\ Len(<<b>>) = 1
        OBVIOUS
      <4> HIDE DEF q
      <4> QED BY <3>1, <3>3, <4>1, <4>2 DEF Is
    <3> QED BY <3>2, <3>3
  <2> HIDE DEF q, d
  <2>5. Alternates(q, FALSE) /\ (chain.pending = 0 => Ends(q, FALSE))
    BY <2>4 DEF Alternates, Ends
  <2>6. Tidy(q, d, task[r], early[r], chain.pending)
    BY <2>3, <2>5 DEF Tidy
  <2> QED BY <2>1, <2>6, OneTidy
<1> QED BY <1>1, <1>2

LEMMA NextTidy == Safe /\ AllTidy /\ [Next]_vars => AllTidy'
<1> SUFFICES ASSUME Types, Bounded, AllTidy, [Next]_vars PROVE AllTidy'
  BY DEF Safe, IInv
<1>1. CASE ChainStart \/ ChainCancel \/ ChainApprove
  BY <1>1, ChainTidy
<1>2. ASSUME NEW r \in Replicators, Step(r) PROVE AllTidy'
  BY <1>2, DriveTidy, TaskTidy DEF Step
<1>3. ASSUME NEW r \in Replicators, Deliver(r) PROVE AllTidy'
  BY <1>3, DeliverTidy
<1>4. ASSUME NEW r \in Replicators, Crash(r) \/ Restart(r) PROVE AllTidy'
  BY <1>4, CrashTidy
<1>5. CASE UNCHANGED vars
  BY <1>5 DEF vars, AllTidy
<1> QED BY <1>1, <1>2, <1>3, <1>4, <1>5 DEF Next

LEMMA TypesFollow == Safe => TypeOK
<1> SUFFICES ASSUME Types, Bounded PROVE TypeOK
  BY DEF Safe, IInv
<1>1. Posted \subseteq Event
  BY PostedIds
<1>2. inbox \in [Replicators -> Seq(Event)]
  <2>1. inbox \in [Replicators -> Seq(Posted)]
    BY DEF Types
  <2>2. ASSUME NEW q \in Seq(Posted) PROVE q \in Seq(Event)
    BY <1>1, <2>2
  <2> QED BY <2>1, <2>2
<1> QED BY <1>2 DEF Types, Bounded, TypeOK, ChainType, DriveType, EarlyType

LEMMA TidyLeavesNothing == Types /\ AllTidy => StartFindsNoTask /\ OverIsForgotten /\ NothingEarlyIsLeft
<1> SUFFICES ASSUME Types, AllTidy, NEW r \in Replicators
             PROVE  /\ inbox[r] # <<>> /\ Head(inbox[r]).type = "start" => task[r] = NoTask
                    /\ chain.pending = 0 /\ inbox[r] = <<>> =>
                           task[r] = NoTask /\ drive[r].request = 0
                    /\ task[r] # NoTask => /\ \A c \in early[r].codes : c.tx # task[r].tx
                                           /\ \A o \in early[r].opinions : o.tx # task[r].tx
  BY DEF StartFindsNoTask, OverIsForgotten, NothingEarlyIsLeft
<1>0. /\ Tidy(inbox[r], drive[r], task[r], early[r], chain.pending)
      /\ inbox[r] \in Seq(Posted)
  BY DEF AllTidy, Types
<1>1. ASSUME inbox[r] # <<>>, Head(inbox[r]).type = "start" PROVE task[r] = NoTask
  <2>1. Is(inbox[r], 1, "start") /\ \A i \in Nat : Is(inbox[r], i, "stop") => i > 0
    BY <1>0, <1>1, TailIs
  <2>2. ~Active(drive[r], task[r])
    BY <1>0, <2>1 DEF Tidy, Alternates
  <2> QED BY <2>2 DEF Active
<1>2. ASSUME chain.pending = 0, inbox[r] = <<>> PROVE task[r] = NoTask /\ drive[r].request = 0
  <2>1. ~Active(drive[r], task[r])
    BY <1>0, <1>2 DEF Tidy, Ends, Is
  <2> QED BY <2>1 DEF Active
<1> QED BY <1>0, <1>1, <1>2 DEF Tidy

------------------------------------------------------------------------------
(* The results. *)

\* For every set of replicators and whatever is lost, late, repeated or
\* forgotten in a crash: an opinion vouches only for a replicator that shared
\* a code for this verification and whose files are the same
\* (verifyCodeTimerExpired).
THEOREM JustifiedOpinions == Spec => []OpinionsAreJustified
<1>1. Safe => OpinionsAreJustified
  BY DEF Safe, IInv, Justified, Same, OpinionsAreJustified, SameFiles
<1> QED BY <1>1, InitSafe, NextKeeps, PTL DEF Spec

\* For every set of replicators: an opinion that was formed because all the
\* codes had come, and not because the time was up, vouches for everybody whose
\* files are the same (checkVerifyCodeNumber counts one code less than there
\* are replicators, and no replicator ever receives its own).
THEOREM NoFalseAlarms == Spec => []NoFalseAlarm
<1>1. Safe => NoFalseAlarm
  BY DEF Safe, IInv, Justified, Same, NoFalseAlarm, SameFiles
<1> QED BY <1>1, InitSafe, NextKeeps, PTL DEF Spec

\* For every set of replicators: a published transaction holds shared opinions
\* on this verification, one of each of more than two thirds of them
\* (processedVerificationOpinion, verifyOpinionTimerExpired).
THEOREM PublishedQuorum == Spec => []PublishedByQuorum
<1>1. Safe => PublishedByQuorum
  BY DEF Safe, IInv, PublishedOK, Enough, Unique, PublishedByQuorum
<1> QED BY <1>1, InitSafe, NextKeeps, PTL DEF Spec

\* For every set of replicators, whatever crashes, expires or is approved
\* meanwhile: startVerification never finds a task of an earlier verification,
\* no drive is left with a verification that is over, and a task has been given
\* everything that came early for it (startVerification, cancelVerification,
\* runVerificationTask).
THEOREM NothingLeftOver == Spec => []NothingIsLeftOver
<1>1. Safe /\ AllTidy => NothingIsLeftOver
  BY TypesFollow, TidyLeavesNothing DEF Safe, IInv, NothingIsLeftOver
<1>2. Init => Safe /\ AllTidy
  BY InitSafe, InitTidy
<1>3. (Safe /\ AllTidy) /\ [Next]_vars => (Safe /\ AllTidy)'
  BY NextKeeps, NextTidy
<1> QED BY <1>1, <1>2, <1>3, PTL DEF Spec

==============================================================================
