------------------------------ MODULE Catalogue ------------------------------
(***************************************************************************)
(* How the server comes up and what it then competes on.  Each start       *)
(* migrates the database and seeds the rounds and the official challenges, *)
(* one statement after the other and in no transaction, on top of whatever *)
(* an earlier start left behind and administrators have made of it.        *)
(* Statements fail, the process dies, and the database goes away; the      *)
(* embedded one of a development server is recovered by whoever asks for   *)
(* its health, if need be from nothing.                                    *)
(*                                                                         *)
(* What the seed does to the event row is in EventLifecycle and Arena, the *)
(* thresholds of rounds are in Arena, and the start of the worker is in    *)
(* Sandbox.  Demo competitors are left out, for nothing creates any.       *)
(***************************************************************************)
EXTENDS Naturals

CONSTANTS
  Official,   \* the ids of OFFICIAL_CHALLENGES
  Own,        \* ids that administrators give to challenges
  OfficialRounds, \* the slugs of the rounds that the seed creates,
  Slugs,      \* and of all that there may be
  Migrations, \* their number
  MaxFaults,  \* what fails: statements, processes, the database
  MaxEdits    \* what administrators do

ASSUME CatalogueAssumption ==
  /\ Official \cap Own = {} /\ OfficialRounds \subseteq Slugs
  /\ Migrations \in Nat /\ MaxFaults \in Nat /\ MaxEdits \in Nat

VARIABLES
  setting,   \* production, and whether its secrets are configured
  server,    \* down, starting, ready (isServerReady), or degraded
  database,  \* whether it can be reached, or is broken beyond reach
  step,      \* where runMigrations and runSeed are
  left,      \* the challenges that the seed has not come to the end of
  schema,    \* the migrations that were executed ...
  migrated,  \* ... and those in schema_migrations
  rounds,    \* the slugs of the rounds
  challenge, \* challenges, with their flags and test cases
  creating,  \* where createChallenge is
  wiped,     \* history: the database was deleted and not yet seeded again
  faults,    \* history: what has failed, up to MaxFaults
  edits      \* history: what administrators have done, up to MaxEdits

catalogueVars ==
  <<setting, server, database, step, left, schema, migrated, rounds, challenge,
    creating, wiped, faults, edits>>

stored == <<schema, migrated, rounds, challenge>>

Ids == Official \cup Own
AllTests == 2

\* A challenge: the slugs are named after the challenges that have them at first,
\* and "tried" says that submissions refer to it.
NoChallenge ==
  [there |-> FALSE, slug |-> "", active |-> FALSE, flag |-> "", tests |-> 0, tried |-> FALSE]
NotCreating == [id |-> "", pc |-> "idle"]

CatalogueInit ==
  /\ setting \in [production : BOOLEAN, configured : BOOLEAN]
  /\ server = "down" /\ database = "up" /\ step = "none" /\ left = {}
  /\ schema = 0 /\ migrated = 0 /\ rounds = {}
  /\ challenge = [c \in Ids |-> NoChallenge]
  /\ creating = NotCreating
  /\ wiped = FALSE /\ faults = 0 /\ edits = 0

\* No other challenge has the slug.
Free(s, c) == \A d \in Ids \ {c} : challenge[d].there => challenge[d].slug # s

Fault == faults < MaxFaults /\ faults' = faults + 1

\* A step of the script, whose statements reach the database.
At(s) == step = s /\ database = "up"

-----------------------------------------------------------------------------
(* startServer *)

Boot ==
  /\ server = "down"
  /\ server' = "starting" /\ step' = "connect"
  /\ UNCHANGED <<setting, database, left, stored, creating, wiped, faults, edits>>

\* The secrets are there if they are needed, and the database answers.
Connect ==
  /\ At("connect")
  /\ setting.production => setting.configured
  /\ step' = "migrate"
  /\ UNCHANGED <<setting, server, database, left, stored, creating, wiped, faults, edits>>

\* Cannot be executed twice.
ApplyOnce ==
  /\ At("migrate") /\ migrated < Migrations /\ schema = migrated
  /\ schema' = migrated + 1
  /\ step' = "record"
  /\ UNCHANGED <<setting, server, database, left, migrated, rounds, challenge, creating, wiped,
                 faults, edits>>

\* runMigrations: a file is executed as one, ...
ApplyMigration ==
  /\ At("migrate") /\ migrated < Migrations
  /\ schema' = migrated + 1
  /\ step' = "record"
  /\ UNCHANGED <<setting, server, database, left, migrated, rounds, challenge, creating, wiped,
                 faults, edits>>

\* ... and then recorded.
RecordMigration ==
  /\ At("record")
  /\ migrated' = migrated + 1
  /\ step' = "migrate"
  /\ UNCHANGED <<setting, server, database, left, schema, rounds, challenge, creating, wiped,
                 faults, edits>>

\* runSeed: the rounds, by their slugs.
Migrated ==
  /\ At("migrate") /\ migrated = Migrations
  /\ step' = "rounds"
  /\ UNCHANGED <<setting, server, database, left, stored, creating, wiped, faults, edits>>

SeedRound(r) ==
  /\ At("rounds") /\ r \in OfficialRounds \ rounds
  /\ rounds' = rounds \cup {r}
  /\ UNCHANGED <<setting, server, database, step, left, schema, migrated, challenge, creating,
                 wiped, faults, edits>>

SeedAdmin ==
  /\ At("rounds") /\ OfficialRounds \subseteq rounds
  /\ step' = "purge tests"
  /\ UNCHANGED <<setting, server, database, left, stored, creating, wiped, faults, edits>>

\* Challenges of administrators go: their tests, their flags (the progress in them,
\* see PurgeCustom in Arena and EventLifecycle), and then themselves, which the
\* foreign keys of submissions prevent.
Referred == \E c \in Own : challenge[c].tried

Purged(field, none) ==
  challenge' = [c \in Ids |-> IF c \in Own THEN [challenge[c] EXCEPT ![field] = none]
                              ELSE challenge[c]]

Purge ==
  /\ \/ At("purge tests") /\ Purged("tests", 0) /\ step' = "purge flags" /\ UNCHANGED left
     \/ At("purge flags") /\ Purged("flag", "") /\ step' = "purge rows" /\ UNCHANGED left
     \/ /\ At("purge rows") /\ ~Referred
        /\ step' = "challenge" /\ left' = Official
        /\ challenge' = [c \in Ids |-> IF c \in Own THEN NoChallenge ELSE challenge[c]]
  /\ UNCHANGED <<setting, server, database, schema, migrated, rounds, creating, wiped, faults,
                 edits>>

\* Each official challenge in turn: ...
Seeding(c, s) == At(s) /\ left # {} /\ c = CHOOSE x \in left : TRUE

\* Skips a challenge that is there.
SeedNewRow(c) ==
  /\ Seeding(c, "challenge") /\ Free(c, c)
  /\ IF challenge[c].there
     THEN left' = left \ {c} /\ UNCHANGED <<challenge, step>>
     ELSE /\ challenge' = [challenge EXCEPT ![c] = [NoChallenge EXCEPT
               !.there = TRUE, !.slug = c, !.active = TRUE]]
          /\ step' = "flag" /\ UNCHANGED left
  /\ UNCHANGED <<setting, server, database, schema, migrated, rounds, creating, wiped, faults,
                 edits>>

\* ... the row is written, or written over; ...
SeedRow(c) ==
  /\ Seeding(c, "challenge") /\ Free(c, c)
  /\ challenge' = [challenge EXCEPT ![c] = [@ EXCEPT
       !.there = TRUE, !.slug = c, !.active = TRUE]]
  /\ step' = "flag"
  /\ UNCHANGED <<setting, server, database, left, schema, migrated, rounds, creating, wiped,
                 faults, edits>>

\* ... so is the flag; its tests are deleted, and inserted one by one.
SeedFlag(c) ==
  /\ Seeding(c, "flag")
  /\ challenge' = [challenge EXCEPT ![c].flag = "official"]
  /\ step' = "clear tests"
  /\ UNCHANGED <<setting, server, database, left, schema, migrated, rounds, creating, wiped,
                 faults, edits>>

ClearTests(c) ==
  /\ Seeding(c, "clear tests")
  /\ challenge' = [challenge EXCEPT ![c].tests = 0]
  /\ step' = "tests"
  /\ UNCHANGED <<setting, server, database, left, schema, migrated, rounds, creating, wiped,
                 faults, edits>>

SeedTest(c) ==
  /\ Seeding(c, "tests") /\ challenge[c].tests < AllTests
  /\ challenge' = [challenge EXCEPT ![c].tests = @ + 1]
  /\ IF challenge[c].tests + 1 = AllTests
     THEN step' = "challenge" /\ left' = left \ {c}
     ELSE UNCHANGED <<step, left>>
  /\ UNCHANGED <<setting, server, database, schema, migrated, rounds, creating, wiped, faults,
                 edits>>

\* The seed is done: the worker is started next, unless this was a recovery.
Seeded ==
  /\ At("challenge") /\ left = {}
  /\ step' = IF server = "starting" THEN "worker" ELSE "none"
  /\ wiped' = FALSE
  /\ UNCHANGED <<setting, server, database, left, stored, creating, faults, edits>>

BringUpWorker ==
  /\ step = "worker"
  /\ server' = "ready" /\ step' = "none"
  /\ UNCHANGED <<setting, database, left, stored, creating, wiped, faults, edits>>

\* Something throws: a start is given up, and with it the process in production;
\* of a recovery the rest is left out.
Throws ==
  CASE step = "worker" -> FALSE
    [] database # "up" -> TRUE
    [] step = "connect" -> setting.production /\ ~setting.configured
    [] step = "purge rows" -> Referred
    [] step = "challenge" -> \E c \in Official : Seeding(c, "challenge") /\ ~Free(c, c)
    [] step = "tests" -> \E c \in Official : Seeding(c, "tests") /\ challenge[c].tests = AllTests
    [] OTHER -> FALSE

StepFails ==
  /\ step # "none"
  /\ IF Throws THEN UNCHANGED faults ELSE Fault
  /\ step' = "none" /\ left' = {}
  /\ server' = CASE server # "starting" -> server
                 [] setting.production -> "down"
                 [] OTHER -> "degraded"
  /\ UNCHANGED <<setting, database, stored, creating, wiped, edits>>

Die ==
  /\ server' = "down" /\ step' = "none" /\ left' = {} /\ creating' = NotCreating
  /\ UNCHANGED <<setting, database, stored, wiped, edits>>

ServerCrash == server # "down" /\ Fault /\ Die

\* A server that is up is stopped, to be started again.
ServerRestart == server \in {"ready", "degraded"} /\ Die /\ UNCHANGED faults

-----------------------------------------------------------------------------
(* The database *)

Outage ==
  /\ database = "up" /\ Fault
  /\ database' = IF setting.production THEN "down" ELSE "broken"
  /\ UNCHANGED <<setting, server, step, left, stored, creating, wiped, edits>>

Return ==
  /\ database = "down"
  /\ database' = "up"
  /\ UNCHANGED <<setting, server, step, left, stored, creating, wiped, faults, edits>>

\* checkDatabaseHealth opens a broken embedded database again; ...
Reopen ==
  /\ database = "broken" /\ server # "down"
  /\ database' = "up"
  /\ UNCHANGED <<setting, server, step, left, stored, creating, wiped, faults, edits>>

\* ... if that is of no use, it deletes it, and migrates and seeds a new one.
Recover ==
  /\ database = "broken" /\ server # "down" /\ step = "none"
  /\ database' = "up" /\ step' = "migrate" /\ wiped' = TRUE
  /\ schema' = 0 /\ migrated' = 0 /\ rounds' = {} /\ challenge' = [c \in Ids |-> NoChallenge]
  /\ creating' = NotCreating
  /\ UNCHANGED <<setting, server, left, faults, edits>>

-----------------------------------------------------------------------------
(* Administrators *)

Serving == server \in {"ready", "degraded"} /\ database = "up"
Edit == Serving /\ edits < MaxEdits /\ edits' = edits + 1

\* POST /rounds; PATCH /rounds/:id, as far as it renames.
CreateRound(r) ==
  /\ Edit /\ r \notin rounds
  /\ rounds' = rounds \cup {r}
  /\ UNCHANGED <<setting, server, database, step, left, schema, migrated, challenge, creating,
                 wiped, faults>>

UpdateRound(r, s) ==
  /\ Edit /\ r \in rounds /\ s \notin rounds
  /\ rounds' = (rounds \ {r}) \cup {s}
  /\ UNCHANGED <<setting, server, database, step, left, schema, migrated, challenge, creating,
                 wiped, faults>>

\* createChallenge: the row, then its tests, then its flag.
CreateChallenge(c, s) ==
  /\ Edit /\ creating = NotCreating
  /\ rounds # {} /\ ~challenge[c].there /\ Free(s, c)
  /\ challenge' = [challenge EXCEPT ![c] =
       [NoChallenge EXCEPT !.there = TRUE, !.slug = s, !.active = TRUE]]
  /\ creating' = [id |-> c, pc |-> "tests"]
  /\ UNCHANGED <<setting, server, database, step, left, schema, migrated, rounds, wiped, faults>>

\* The row is gone, or a seed has put its own tests or flag there.
Taken ==
  LET row == challenge[creating.id]
  IN  ~row.there \/ (IF creating.pc = "tests" THEN row.tests # 0 ELSE row.flag # "")

CreateTests(c) ==
  /\ Serving /\ creating = [id |-> c, pc |-> "tests"] /\ ~Taken
  /\ challenge' = [challenge EXCEPT ![c].tests = AllTests]
  /\ creating' = [creating EXCEPT !.pc = "flag"]
  /\ UNCHANGED <<setting, server, database, step, left, schema, migrated, rounds, wiped, faults,
                 edits>>

CreateFlag(c) ==
  /\ Serving /\ creating = [id |-> c, pc |-> "flag"] /\ ~Taken
  /\ challenge' = [challenge EXCEPT ![c].flag = "admin"]
  /\ creating' = NotCreating
  /\ UNCHANGED <<setting, server, database, step, left, schema, migrated, rounds, wiped, faults,
                 edits>>

\* What was inserted stays, and the id is taken.
CreateFails ==
  /\ creating # NotCreating
  /\ IF Serving /\ ~Taken THEN Fault ELSE UNCHANGED faults
  /\ creating' = NotCreating
  /\ UNCHANGED <<setting, server, database, step, left, stored, wiped, edits>>

\* PATCH /challenges/:id, /activate, and /deactivate.
UpdateChallenge(c, s) ==
  /\ Edit /\ challenge[c].there /\ Free(s, c)
  /\ challenge' = [challenge EXCEPT ![c].slug = s]
  /\ UNCHANGED <<setting, server, database, step, left, schema, migrated, rounds, creating, wiped,
                 faults>>

SetChallengeActive(c, active) ==
  /\ Edit /\ challenge[c].there
  /\ challenge' = [challenge EXCEPT ![c].active = active]
  /\ UNCHANGED <<setting, server, database, step, left, schema, migrated, rounds, creating, wiped,
                 faults>>

\* A competitor tries a challenge (which of an official one changes nothing here);
\* archived matches are cleared, with what was tried in them.
Try(c) ==
  /\ Serving /\ challenge[c].there /\ challenge[c].active /\ ~challenge[c].tried
  /\ challenge' = [challenge EXCEPT ![c].tried = TRUE]
  /\ UNCHANGED <<setting, server, database, step, left, schema, migrated, rounds, creating, wiped,
                 faults, edits>>

ClearTries(c) ==
  /\ Edit /\ challenge[c].tried
  /\ challenge' = [challenge EXCEPT ![c].tried = FALSE]
  /\ UNCHANGED <<setting, server, database, step, left, schema, migrated, rounds, creating, wiped,
                 faults>>

-----------------------------------------------------------------------------
Seed ==
  \/ \E r \in Slugs : SeedRound(r)
  \/ SeedAdmin \/ Purge \/ Seeded
  \/ \E c \in Official : SeedRow(c) \/ SeedFlag(c) \/ ClearTests(c) \/ SeedTest(c)

Script == Connect \/ ApplyMigration \/ RecordMigration \/ Migrated \/ Seed \/ BringUpWorker

Administer ==
  \/ \E r \in Slugs : CreateRound(r) \/ \E s \in Slugs : UpdateRound(r, s)
  \/ \E c \in Ids :
       \/ \E s \in Ids : CreateChallenge(c, s) \/ UpdateChallenge(c, s)
       \/ CreateTests(c) \/ CreateFlag(c)
       \/ \E active \in BOOLEAN : SetChallengeActive(c, active)
  \/ \E c \in Own : Try(c) \/ ClearTries(c)
  \/ CreateFails

CatalogueNext ==
  \/ Boot \/ Script \/ StepFails \/ ServerCrash \/ ServerRestart
  \/ Outage \/ Return \/ Reopen \/ Recover
  \/ Administer

\* The process is started again, goes on while it can, and the database of
\* production returns.
CatalogueFairness ==
  /\ WF_catalogueVars(Boot)
  /\ WF_catalogueVars(Script \/ StepFails)
  /\ WF_catalogueVars(Return)

CatalogueSpec == CatalogueInit /\ [][CatalogueNext]_catalogueVars /\ CatalogueFairness

-----------------------------------------------------------------------------
(* Properties *)

\* GET /health/ready, as far as the database and the start decide it.
Readiness ==
  IF database # "up" THEN "failed" ELSE IF server # "ready" THEN "initializing" ELSE "ready"

\* A server that is ready has every official challenge, in full, wherever the
\* starts before it broke off and whatever administrators did; except while the
\* database of a development server is being made anew.
Furnished ==
  server = "ready" /\ ~wiped =>
    /\ schema = Migrations /\ migrated = Migrations
    /\ \A c \in Official :
         challenge[c].there /\ challenge[c].flag = "official" /\ challenge[c].tests = AllTests

\* A start is barred for good: competitors have tried a challenge that is to be purged,
\* or an official challenge has got the slug of another.
Barred == Referred \/ \E c \in Official : ~Free(c, c)

\* A production server that is configured is ready again in the end: nothing else
\* that a broken start or an administrator leaves behind stops the next one.
StartsAgain ==
  []<>(Readiness = "ready" \/ Barred \/ ~setting.production \/ ~setting.configured)
=============================================================================
