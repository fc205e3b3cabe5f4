------------------------------ MODULE DataChange ------------------------------
(***************************************************************************)
(* A change of data someone depends on: the plan, the approvals, the       *)
(* snapshots, the rehearsal that restores one, and the decision of         *)
(* evaluateDataChangeSafety the executor asks for before it runs the plan. *)
(*                                                                         *)
(* Nothing here stores a plan: it is in the hands of who proposes it, may  *)
(* be edited at any moment, and reaches the code whole, with what was read *)
(* of it before.  A statement is the sequence of its clauses, the word it  *)
(* begins with first, and a digest is what it hashes.  The registry of     *)
(* databases is given, and the executor says where it is.  An input that   *)
(* names no plan, environment, database or approval is refused at once and *)
(* left out; a capture time is a past one.                                 *)
(* External: the people who approve and record, the databases, and the     *)
(* executor.                                                               *)
(***************************************************************************)
EXTENDS Naturals, Sequences, FiniteSets, FiniteSetsExt

CONSTANTS Database,       \* databases of the registry
          Disposable,     \* the one rehearsals run against
          Registry,       \* the environment that owns each database
          Environment,    \* environments a plan may name
          Migration,      \* plan ids
          Scripts,        \* the sequences of statements plans are written of
          Person, Unnamed, \* who proposes and approves; a plan or an approval names nobody
          Sheets,         \* the facts a submission states beside its recovery
          Absent,         \* no plan, snapshot, evidence
          RecoveryAge,    \* maxRecoveryAgeMs, maxRestoreRehearsalAgeMs and the
          RehearsalAge,   \* life of an approval, in ticks of the clock
          ApprovalLife,
          MaxTime,        \* bounds: ticks, snapshots of an adapter, approvals
          MaxSnapshots, MaxApprovals

Facts == {"rowsAffected", "rollback", "preconditions", "verification", "onVerificationFailure"}

ASSUME DataChangeAssumption ==
  /\ Disposable \in Database
  /\ Registry \in [Database -> Environment]
  /\ Environment \subseteq {"development", "preview", "production"}
  /\ Unnamed \notin Person
  /\ \A script \in Scripts : \A i \in DOMAIN script : script[i] # <<>>
  /\ Sheets \subseteq SUBSET Facts
  /\ {RecoveryAge, RehearsalAge, ApprovalLife, MaxTime, MaxSnapshots} \subseteq Nat
  /\ Absent \notin Nat

VARIABLES time,
          approvals,  \* approvals on record
          applied,    \* migrations of each database
          sequence,   \* snapshots the adapter of each database has taken
          snapshots,  \* recovery records
          rehearsal,  \* a rehearsal under way, and the database it damages
          evidence,   \* what the last rehearsal left
          reviews,    \* history: what each approver had in front of them
          restored    \* history: the last restore that brought a snapshot back

people == <<approvals, reviews, applied>>
adapters == <<sequence, snapshots, rehearsal, evidence, restored>>
dataVars == <<time, people, adapters>>

\* What an approver reads of a plan.
Texts == [id : Migration, environment : Environment, databaseId : Database, statements : Scripts]
Contents == [schema : {"seeded", "altered"}, rows : 0..1]
Snapshots == [snapshotId : 1..MaxSnapshots, of : Database, capturedAt : 0..MaxTime]
Evidence == [rehearsedAt : 0..MaxTime, snapshotId : (1..MaxSnapshots) \cup {Absent}, verified : BOOLEAN]
Rehearsals == [step : {"baseline", "capture", "damage", "restore"}, deaf : BOOLEAN, holds : Contents,
               snapshotId : (1..MaxSnapshots) \cup {Absent}]

\* Plans, recovery records, rehearsals and evidence are what the code can make
\* of them; evidence that says verified names the snapshot that was restored.
DataTypeOK ==
  /\ time \in 0..MaxTime
  /\ \A a \in approvals : a.grantedBy \in Person \cup {Unnamed} /\ a.environment \in Environment
  /\ applied \in [Database -> SUBSET Migration]
  /\ sequence \in [Database -> 0..MaxSnapshots]
  /\ snapshots \subseteq Snapshots
  /\ rehearsal \in Rehearsals \cup {Absent}
  /\ evidence \in Evidence \cup {Absent}
  /\ evidence # Absent => (evidence.verified => evidence.snapshotId # Absent)

DataInit ==
  /\ time = 0
  /\ approvals = {} /\ reviews = {}
  /\ applied = [d \in Database |-> {}]
  /\ sequence = [d \in Database |-> 0]
  /\ snapshots = {}
  /\ rehearsal = Absent /\ evidence = Absent /\ restored = Absent

-----------------------------------------------------------------------------
\* Reading a change: data-change.js.

\* STATEMENT_SHAPES, the neighbours of one class put together, in their order.
\* A statement matches by what it begins with; an alter table, by a clause
\* anywhere behind that.  What stands behind any other head is not read: an
\* entry of input.statements is one statement, semicolons and all.
Shape(class, heads, inside) == [class |-> class, heads |-> heads, inside |-> inside]
StatementShapes == <<
  Shape("destructive", {"drop table", "truncate", "delete", "drop policy"}, {"drop column", "disable rls"}),
  Shape("contract",    {"drop index"}, {}),
  Shape("narrowing",   {"create unique index"}, {"alter type", "set not null", "add constraint"}),
  Shape("contract",    {"revoke"}, {"rename", "drop default"}),
  Shape("backfill",    {"update", "insert"}, {}),
  Shape("additive",    {"create", "grant", "comment"},
                       {"add column", "add not null column", "add not null column with default",
                        "enable rls", "set default", "drop not null"})>>

Alters(s) == s[1] = "alter table"

\* An added column, then not null, and no default anywhere behind it.
AddsNotNull(s) ==
  \E i \in DOMAIN s : \E j \in i..Len(s) :
    /\ s[i] \in {"add column", "add not null column", "add not null column with default"}
    /\ s[j] \in {"add not null column", "drop not null"}
    /\ \A k \in j..Len(s) : s[k] \notin {"add not null column with default", "set default", "drop default"}

Matches(s, n) ==
  \/ s[1] \in StatementShapes[n].heads
  \/ Alters(s) /\ \E i \in DOMAIN s : s[i] \in StatementShapes[n].inside
  \/ Alters(s) /\ StatementShapes[n].class = "narrowing" /\ AddsNotNull(s)

\* classifySqlStatement: the first shape that matches, and no guess.
ClassOf(s) ==
  LET matching == {n \in DOMAIN StatementShapes : Matches(s, n)}
  IN IF matching = {} THEN "unclassified" ELSE StatementShapes[Min(matching)].class

ClassOrder == <<"additive", "backfill", "contract", "narrowing", "destructive", "unclassified">>
Classes(statements) == {ClassOf(statements[i]) : i \in DOMAIN statements}

\* Mutant: by the statement that comes last.
LastClass(statements) == ClassOf(statements[Len(statements)])

WorstClass(statements) ==
  ClassOrder[Max({n \in DOMAIN ClassOrder : ClassOrder[n] \in Classes(statements)})]

\* Mutant: whatever database it is.
DigestOfStatements(p) == [id |-> p.id, environment |-> p.environment, statements |-> p.statements]

\* dataChangePlanDigest: what an approver reviewed.
PlanDigest(p) ==
  [id |-> p.id, environment |-> p.environment, databaseId |-> p.databaseId, statements |-> p.statements]

Text(p) == [id |-> p.id, environment |-> p.environment, databaseId |-> p.databaseId,
            statements |-> p.statements]

\* planDataChange: the class of each statement, the worst, and the digest.
PlanDataChange(text, proposedBy, expected) ==
  [id |-> text.id, environment |-> text.environment, databaseId |-> text.databaseId,
   statements |-> text.statements, proposedBy |-> proposedBy, expected |-> expected,
   classes |-> Classes(text.statements),
   classification |-> IF text.statements = <<>> THEN "none" ELSE WorstClass(text.statements),
   digest |-> PlanDigest(text)]

\* A plan whose text was changed by hand keeps what was read of it before.
Edited(p, text) ==
  [p EXCEPT !.id = text.id, !.environment = text.environment, !.databaseId = text.databaseId,
            !.statements = text.statements]

\* The plans that reach the decision, which reads them as they are.  One that
\* expects itself to have run is left out: it is never in sequence.
Plans == {p \in {Edited(PlanDataChange(planned, proposedBy, expected), text) :
                   planned \in Texts, text \in Texts,
                   proposedBy \in Person \cup {Unnamed}, expected \in SUBSET Migration} :
            p.id \notin p.expected}

AsPlanned(p) == p = PlanDataChange(Text(p), p.proposedBy, p.expected)

\* dataChangeRequirements.
TouchesExistingRows == {"backfill", "narrowing", "destructive"}
Irreversible == {"narrowing", "destructive", "contract"}
FactsRequired(p) ==
  LET irreversible == p.classification \in Irreversible
      touches == p.classification \in TouchesExistingRows
      production == p.environment = "production"
  IN {f \in Facts : \/ f = "rowsAffected" /\ touches
                    \/ f = "rollback" /\ (irreversible \/ production)
                    \/ f = "preconditions" /\ irreversible /\ production
                    \/ f \in {"verification", "onVerificationFailure"} /\ (irreversible \/ touches)}
RecoveryRequired(p) == p.classification \in Irreversible /\ p.environment # "development"
RehearsalRequired(p) == p.classification \in Irreversible /\ p.environment = "production"
ApprovalRequired(p) == p.environment = "production"

-----------------------------------------------------------------------------
\* The decision: evaluateDataChangeSafety.  A submission is a plan, the facts it
\* states and the database the executor is at; recovery is the record it names,
\* proof the evidence of a rehearsal.

StatementRefused(p) == p.statements = <<>> \/ "unclassified" \in p.classes

TargetRefused(p, on) == p.environment # Registry[on] \/ p.databaseId # on \/ Registry[p.databaseId] # p.environment

SequenceRefused(p, on) ==
  \/ ~(p.expected \subseteq applied[on])
  \/ p.id \in applied[on]
  \/ p.expected # {} /\ ~(applied[on] \subseteq p.expected \cup {p.id})

RecoveryRefused(p, recovery) ==
  \/ recovery = Absent
  \/ Registry[recovery.of] # p.environment
  \/ recovery.of # p.databaseId
  \/ time - recovery.capturedAt > RecoveryAge

RehearsalRefused(recovery, proof) ==
  \/ proof = Absent
  \/ ~proof.verified
  \/ recovery # Absent /\ proof.snapshotId # Absent /\ proof.snapshotId # recovery.snapshotId
  \/ time - proof.rehearsedAt > RehearsalAge

Bound(p) == {a \in approvals : a.environment = p.environment /\ a.planDigest = p.digest}
Live(p) == {a \in Bound(p) : a.expiresAt > time}
ApprovalRefused(p) ==
  \/ Live(p) = {}
  \/ p.proposedBy # Unnamed /\ \A a \in Live(p) : a.grantedBy = p.proposedBy

\* What the submission alone does not get refused.
Coherent ==
  {c \in {[plan |-> p, stated |-> facts, on |-> d] : p \in Plans, facts \in Sheets, d \in Database} :
     /\ ~TargetRefused(c.plan, c.on)
     /\ ~StatementRefused(c.plan)
     /\ FactsRequired(c.plan) \subseteq c.stated}

Sanctioned(c) ==
  /\ ~SequenceRefused(c.plan, c.on)
  /\ ApprovalRequired(c.plan) => ~ApprovalRefused(c.plan)

Restorable(c, recovery, proof) ==
  /\ RecoveryRequired(c.plan) => ~RecoveryRefused(c.plan, recovery)
  /\ RehearsalRequired(c.plan) => ~RehearsalRefused(recovery, proof)

Allowed(c, recovery, proof) == Sanctioned(c) /\ Restorable(c, recovery, proof)

Records == snapshots \cup {Absent}
Proofs == {evidence, Absent}

-----------------------------------------------------------------------------
\* The people around a plan.

\* External: a person approves a plan, by its digest, under their own name or
\* under none.
Approve(by, grantedBy, text) ==
  /\ Cardinality(approvals) < MaxApprovals
  /\ grantedBy \in {by, Unnamed}
  /\ approvals' = approvals \cup {[grantedBy |-> grantedBy, environment |-> text.environment,
                                  expiresAt |-> time + ApprovalLife, planDigest |-> PlanDigest(text)]}
  /\ reviews' = reviews \cup {[by |-> by, named |-> grantedBy, text |-> text,
                              until |-> time + ApprovalLife]}
  /\ UNCHANGED <<time, applied, adapters>>

\* What the executor may ask about a migration where it is.
Asked == [on \in Database, id \in Migration |-> {c \in Coherent : c.on = on /\ c.plan.id = id}]

\* Whatever it names beside the plan.
AlwaysRefused(on, id) ==
  \A c \in Asked[on, id] :
    \/ ~Sanctioned(c)
    \/ \A recovery \in Records, proof \in Proofs : ~Restorable(c, recovery, proof)

\* External: the executor asks and, when allowed, runs the plan where it is.
Run(on, id) ==
  /\ ~AlwaysRefused(on, id)
  /\ applied' = [applied EXCEPT ![on] = @ \cup {id}]
  /\ UNCHANGED <<time, approvals, reviews, adapters>>

Tick ==
  /\ time < MaxTime
  /\ time' = time + 1
  /\ UNCHANGED <<people, adapters>>

-----------------------------------------------------------------------------
\* Snapshots and rehearsals: data-recovery.js over the adapter of a database.

\* capture of the PostgreSQL adapter: the id counts its captures, also those
\* that fail.
Counts(d) ==
  /\ sequence[d] < MaxSnapshots
  /\ sequence' = [sequence EXCEPT ![d] = @ + 1]

Captures(d) ==
  /\ Counts(d)
  /\ snapshots' = snapshots \cup {[snapshotId |-> sequence'[d], of |-> d, capturedAt |-> time]}

\* External: someone takes a snapshot of a database, and records it.
TakeSnapshot(d) ==
  /\ d # Disposable
  /\ Captures(d)
  /\ UNCHANGED <<time, people, rehearsal, evidence, restored>>

\* The one baseline that is not refused: the seeded schema, with rows.
Baseline == [schema |-> "seeded", rows |-> 1]

\* What the adapter reports of the database; a deaf one reports what it is asked for.
Reported(content) == IF rehearsal.deaf THEN Baseline ELSE content

\* rehearsalResult.
Conclude(verified) ==
  /\ rehearsal' = Absent
  /\ evidence' = [rehearsedAt |-> time, snapshotId |-> rehearsal.snapshotId, verified |-> verified]

\* A rehearsal begins on a database that was seeded, or was not.
BeginRehearsal ==
  /\ rehearsal = Absent /\ sequence[Disposable] < MaxSnapshots
  /\ \E rows \in 0..1, deaf \in BOOLEAN :
       rehearsal' = [step |-> "baseline", deaf |-> deaf, snapshotId |-> Absent,
                     holds |-> [schema |-> "seeded", rows |-> rows]]
  /\ UNCHANGED <<time, people, sequence, snapshots, evidence, restored>>

At(step) == rehearsal # Absent /\ rehearsal.step = step
Proceed(step) == rehearsal' = [rehearsal EXCEPT !.step = step]

MeasureBaseline ==
  /\ At("baseline")
  /\ \/ /\ Reported(rehearsal.holds) = Baseline
        /\ Proceed("capture")
        /\ UNCHANGED evidence
     \/ Conclude(FALSE)         \* nothing counted, or not what was declared
  /\ UNCHANGED <<time, people, sequence, snapshots, restored>>

CaptureSnapshot ==
  /\ At("capture")
  /\ \/ /\ Captures(Disposable)
        /\ rehearsal' = [rehearsal EXCEPT !.step = "damage", !.snapshotId = sequence'[Disposable]]
        /\ UNCHANGED evidence
     \/ /\ Counts(Disposable)   \* it threw, or the dump is empty
        /\ Conclude(FALSE)
        /\ UNCHANGED snapshots
  /\ UNCHANGED <<time, people, restored>>

\* Mutant: the damage is believed.
DamageUnchecked ==
  /\ At("damage")
  /\ \E content \in Contents : rehearsal' = [rehearsal EXCEPT !.step = "restore", !.holds = content]
  /\ UNCHANGED <<time, people, sequence, snapshots, evidence, restored>>

\* The damage may destroy nothing.
Damage ==
  /\ At("damage")
  /\ \E content \in Contents :
       IF Reported(content) = Baseline
       THEN Conclude(FALSE)
       ELSE /\ rehearsal' = [rehearsal EXCEPT !.step = "restore", !.holds = content]
            /\ UNCHANGED evidence
  /\ UNCHANGED <<time, people, sequence, snapshots, restored>>

\* The restore may bring back all, some or nothing.
Restore ==
  /\ At("restore")
  /\ \E content \in Contents :
       /\ Conclude(Reported(content) = Baseline)
       /\ IF rehearsal.holds # content /\ content = Baseline
          THEN restored' = [snapshotId |-> rehearsal.snapshotId, of |-> Disposable, at |-> time]
          ELSE UNCHANGED restored
  /\ UNCHANGED <<time, people, sequence, snapshots>>

AdapterThrows ==
  /\ rehearsal # Absent /\ rehearsal.step # "capture"
  /\ Conclude(FALSE)
  /\ UNCHANGED <<time, people, sequence, snapshots, restored>>

DataNext ==
  \/ Tick
  \/ \E by \in Person, grantedBy \in Person \cup {Unnamed}, text \in Texts :
       Approve(by, grantedBy, text)
  \/ \E on \in Database, id \in Migration : Run(on, id)
  \/ \E d \in Database : TakeSnapshot(d)
  \/ BeginRehearsal \/ MeasureBaseline \/ CaptureSnapshot \/ Damage \/ Restore \/ AdapterThrows

DataSpec == DataInit /\ [][DataNext]_dataVars

-----------------------------------------------------------------------------
\* The decision is for "a plan from planDataChange" (data-change.js:382): it
\* reads the classes and the digest such a plan carries and computes neither
\* again, so nothing is said of a plan edited after it was planned.
InProduction == {c \in Coherent : Registry[c.on] = "production" /\ AsPlanned(c.plan)}
Losses == {c \in InProduction : Classes(c.plan.statements) \cap Irreversible # {}}

\* However a change is rewritten, retargeted and planned again around its
\* approvals, and however they expire, what may run on a production database
\* was read, statement by statement and for that database, by someone whose
\* approval still stands and who did not propose it; unless the approval or
\* the plan names nobody, which the self-issue test takes for someone else
\* (data-change.js:519-547).
AllowedWasReviewed ==
  \A c \in InProduction, recovery \in Records, proof \in Proofs :
    Allowed(c, recovery, proof) =>
      \E r \in reviews :
        /\ r.text = Text(c.plan)
        /\ r.until > time
        /\ r.by # c.plan.proposedBy \/ Unnamed \in {r.named, c.plan.proposedBy}

\* A plan with a statement, whichever of them it is, that the reader takes for
\* irreversible may run on a production database only beside a snapshot of that
\* database inside the recovery window, and after a restore, inside its own
\* window, that did bring a snapshot of that id back.  Not necessarily that
\* snapshot: a rehearsal is bound to it by its id alone, and each adapter
\* counts for itself (data-change.js:468-506).
AllowedIsRestorable ==
  \A c \in Losses, recovery \in Records, proof \in Proofs :
    Allowed(c, recovery, proof) =>
      /\ recovery \in snapshots
      /\ recovery.of = c.on /\ time - recovery.capturedAt <= RecoveryAge
      /\ restored = [snapshotId |-> recovery.snapshotId, of |-> Disposable, at |-> proof.rehearsedAt]
      /\ time - proof.rehearsedAt <= RehearsalAge

\* A rehearsal passes only when the adapter did bring back what it had
\* captured, from something else: not when it damaged nothing, restored
\* nothing or part of it, counted nothing, or reports what it is asked
\* (data-recovery.js:15-19).
VerifiedMeansRestored ==
  evidence # Absent /\ evidence.verified =>
    restored = [snapshotId |-> evidence.snapshotId, of |-> Disposable, at |-> evidence.rehearsedAt]
=============================================================================
