---------------------------- MODULE OutlineSync ----------------------------
(***************************************************************************)
(* scripts/sync_outline_docs.py: the repository's documents are copied to  *)
(* an Outline collection.  A run lists the collection, merges documents    *)
(* that share a title, makes sure of the index, the hubs and one document  *)
(* per file, rewrites the texts, archives what nobody maps any more and    *)
(* regenerates the indexes.  Every call to the server is a step: two runs  *)
(* may interleave, and any call may raise, which ends the run where it is. *)
(*                                                                         *)
(* Documents are numbered in the order of their creation, so the oldest of *)
(* a set is the least.  A listing is one call: the collection fits a page  *)
(* of 100.  Every title of the model starts with the project's prefix.     *)
(***************************************************************************)
EXTENDS Naturals, Sequences, FiniteSets

CONSTANTS Runs,         \* executions of the script
          Root,         \* ROOT_TITLE
          Cleaning,     \* those started with --archive-unknown
          Hubs,         \* titles of HUB_TITLES
          Targets,      \* titles of the repository's documents
          HubOf,        \* the category of each target
          Legacy,       \* titles with the prefix that no file maps to
          Start         \* the collections a first run may find

VARIABLES docs,      \* the collection: [title, parent, text, lists, active]
          updated,   \* their places in the order of their last updates
          run,       \* each run's position and what it remembers
          quiet      \* runs that no other run has overlapped or followed

vars == <<docs, updated, run, quiet>>

Desired == {Root} \cup Hubs \cup Targets
Titles == Desired \cup Legacy
Texts == {"old", "new", "raw", "final", "stub", "index"}
NoDoc == 0

Least(S) == CHOOSE d \in S : \A e \in S : d <= e
Active == {d \in DOMAIN docs : docs[d].active}
Entitled(t, S) == {d \in S : docs[d].title = t}

\* Idle is a run before its first call; "seen" is the last listing with the
\* documents the run created since, "parent" their parents in it.
Idle == [pc |-> "idle", seen |-> {}, parent |-> <<>>, todo |-> {},
         title |-> Root, newest |-> NoDoc, hold |-> "old"]

Init == /\ \E c \in Start : docs = c.docs /\ updated = c.updated
        /\ run = [r \in Runs |-> Idle]
        /\ quiet = [r \in Runs |-> TRUE]

Running(r) == run[r].pc \notin {"idle", "done", "failed"}

\* A step of r: it goes on to s, and is what other runs may overlap with.
Goes(r, s) ==
    /\ run' = [run EXCEPT ![r] = s]
    /\ quiet' = [q \in Runs |->
                   IF q = r THEN quiet[r] /\ \A o \in Runs \ {r} : ~Running(o)
                            ELSE run[q].pc = "idle" /\ quiet[q]]

Same == UNCHANGED <<docs, updated>>

\* documents.list: the active documents and their parents, as they are now.
Listing(s) == [s EXCEPT !.seen = Active,
                        !.parent = [d \in Active |-> docs[d].parent]]
-----------------------------------------------------------------------------
\* The calls that write.  The server touches no archived document, and
\* what it touches is the last updated from then on.
Touched(d) ==
    [e \in DOMAIN updated |->
       CASE e = d -> Len(docs)
         [] updated[e] > updated[d] -> updated[e] - 1
         [] OTHER -> updated[e]]

Update(d, change) ==
    IF docs[d].active THEN /\ docs' = [docs EXCEPT ![d] = change]
                           /\ updated' = Touched(d)
                      ELSE Same

Archive(d) == /\ docs' = [docs EXCEPT ![d].active = FALSE]
              /\ UNCHANGED updated

Create(t, text, parent) ==
    /\ docs' = Append(docs, [title |-> t, parent |-> parent, text |-> text,
                             lists |-> {}, active |-> TRUE])
    /\ updated' = Append(updated, Len(docs) + 1)

\* max(items, key=updatedAt); the mutant takes the last one created.
LastCreated(S) == CHOOSE d \in S : \A e \in S : e <= d
Newest(S) == CHOOSE d \in S : \A e \in S : updated[e] <= updated[d]

\* canonical_doc and the choice of ensure_single_doc: the oldest document.
Canonical(S) == Least(S)
-----------------------------------------------------------------------------
\* Step 1: titles held by several documents are merged into the oldest one,
\* which takes the text of the last updated one before the others go.
FirstList(r) ==
    LET dups == {t \in Titles : Cardinality(Entitled(t, Active)) > 1}
    IN  /\ run[r].pc = "idle"
        /\ Goes(r, [Listing(run[r]) EXCEPT
                      !.pc = "dedupe",
                      !.todo = {<<t, Newest(Entitled(t, Active))>> : t \in dups}])
        /\ Same

ReadNewest(r) ==
    /\ run[r].pc = "dedupe"
    /\ \E p \in run[r].todo :
         Goes(r, [run[r] EXCEPT !.pc = "merge", !.title = p[1], !.newest = p[2],
                                !.todo = @ \ {p}, !.hold = docs[p[2]].text])
    /\ Same

\* The extra documents of the title the run works on, in its listing; the
\* mutant spares the document whose text was kept instead.
ExtrasOfNewest(r) == Entitled(run[r].title, run[r].seen) \ {run[r].newest}
Extras(r) == LET same == Entitled(run[r].title, run[r].seen)
             IN  same \ {Canonical(same)}

MergeText(r) ==
    LET d == Canonical(Entitled(run[r].title, run[r].seen))
    IN  /\ run[r].pc = "merge"
        /\ Update(d, [docs[d] EXCEPT !.text = run[r].hold])
        /\ Goes(r, [run[r] EXCEPT !.pc = "mergeArchive"])

AfterEnsure(s) == IF s.todo = {} THEN [s EXCEPT !.pc = "targets", !.todo = Targets]
                                 ELSE [s EXCEPT !.pc = "hub"]

ArchiveExtra(r) ==
    /\ run[r].pc \in {"mergeArchive", "ensureArchive"}
    /\ \E d \in Extras(r) :
         LET s == [run[r] EXCEPT !.seen = @ \ {d}]
         IN  /\ Archive(d)
             /\ Goes(r, IF Extras(r) # {d} THEN s
                        ELSE IF run[r].pc = "mergeArchive" THEN [s EXCEPT !.pc = "dedupe"]
                        ELSE AfterEnsure(s))
-----------------------------------------------------------------------------
\* Step 2: the index and the hubs, in the order of the file (any order here:
\* they touch different documents).  ensure_single_doc updates the oldest,
\* then archives the others, or creates the document.
SecondList(r) ==
    /\ run[r].pc = "dedupe" /\ run[r].todo = {}
    /\ Goes(r, [Listing(run[r]) EXCEPT !.pc = "ensure", !.title = Root,
                                       !.todo = Hubs])
    /\ Same

\* The document a run knows for a title, once it has made sure of it.
Known(r, t) == Canonical(Entitled(t, run[r].seen))
ParentFor(r, t) == CASE t = Root -> NoDoc
                     [] t \in Hubs -> Known(r, Root)
                     [] OTHER -> Known(r, HubOf[t])

NextHub(r) ==
    /\ run[r].pc = "hub"
    /\ \E h \in run[r].todo :
         Goes(r, [run[r] EXCEPT !.pc = "ensure", !.title = h, !.todo = @ \ {h}])
    /\ Same

\* A parent of None is left out of the payload: the index keeps its own.
EnsureExisting(r) ==
    LET t == run[r].title
        d == Known(r, t)
    IN  /\ run[r].pc = "ensure" /\ Entitled(t, run[r].seen) # {}
        /\ Update(d, [docs[d] EXCEPT
                        !.text = "stub", !.lists = {},
                        !.parent = IF t = Root THEN @ ELSE ParentFor(r, t)])
        /\ Goes(r, IF Extras(r) = {} THEN AfterEnsure(run[r])
                   ELSE [run[r] EXCEPT !.pc = "ensureArchive"])

EnsureMissing(r) ==
    LET t == run[r].title
    IN  /\ run[r].pc = "ensure" /\ Entitled(t, run[r].seen) = {}
        /\ Create(t, "stub", ParentFor(r, t))
        /\ Goes(r, AfterEnsure([run[r] EXCEPT !.seen = @ \cup {Len(docs) + 1}]))
-----------------------------------------------------------------------------
\* Step 3: documents for files that have none, with the text as it is.
CreateTarget(r) ==
    /\ run[r].pc = "targets"
    /\ \E t \in run[r].todo :
         /\ Entitled(t, run[r].seen) = {}
         /\ Create(t, "raw", ParentFor(r, t))
         /\ Goes(r, [run[r] EXCEPT !.seen = @ \cup {Len(docs) + 1},
                                   !.todo = @ \ {t}])

\* Step 4: the final text and the hub of every file's document, if it
\* differs: the text is read now, the parent is the listing's.  The run goes
\* on with the documents it knew for the hubs.
ThirdList(r) ==
    /\ run[r].pc = "targets"
    /\ \A t \in run[r].todo : Entitled(t, run[r].seen) # {}
    /\ LET s == Listing(run[r])
           hubs == {Known(r, h) : h \in {Root} \cup Hubs}
       IN  Goes(r, [s EXCEPT !.pc = "rewrite",
                             !.seen = Active \cup hubs,
                             !.todo = {t \in Targets : Entitled(t, Active) # {}}])
    /\ Same

Rewrite(r) ==
    /\ run[r].pc = "rewrite"
    /\ \E t \in run[r].todo :
         LET d == Canonical(Entitled(t, run[r].seen))
             hub == Known(r, HubOf[t])
             s == [run[r] EXCEPT !.todo = @ \ {t}, !.newest = d]
         IN  IF docs[d].text = "final" /\ run[r].parent[d] = hub
             THEN Goes(r, s)
             ELSE Goes(r, [s EXCEPT !.pc = "write", !.title = t])
    /\ Same

\* The mutant leaves the parent out of the payload.
WriteTextOnly(r) ==
    LET d == run[r].newest
    IN  /\ run[r].pc = "write"
        /\ Update(d, [docs[d] EXCEPT !.text = "final"])
        /\ Goes(r, [run[r] EXCEPT !.pc = "rewrite"])

WriteFinal(r) ==
    LET d == run[r].newest
        hub == Known(r, HubOf[run[r].title])
    IN  /\ run[r].pc = "write"
        /\ Update(d, [docs[d] EXCEPT !.text = "final", !.parent = hub])
        /\ Goes(r, [run[r] EXCEPT !.pc = "rewrite"])
-----------------------------------------------------------------------------
\* Step 5: documents of the project that no file or hub is called after.
UnknownList(r) ==
    /\ run[r].pc = "rewrite" /\ run[r].todo = {} /\ r \in Cleaning
    /\ Goes(r, [run[r] EXCEPT !.pc = "unknown",
                              !.todo = {d \in Active : docs[d].title \notin Desired}])
    /\ Same

ArchiveUnknown(r) ==
    /\ run[r].pc = "unknown"
    /\ \E d \in run[r].todo : Archive(d) /\ Goes(r, [run[r] EXCEPT !.todo = @ \ {d}])

\* Step 6: the hubs list the documents under them, the index lists the hubs.
LastList(r) ==
    /\ \/ run[r].pc = "rewrite" /\ r \notin Cleaning
       \/ run[r].pc = "unknown"
    /\ run[r].todo = {}
    /\ Goes(r, [run[r] EXCEPT
                  !.pc = "indexes", !.todo = Hubs,
                  !.parent = [d \in Active |-> docs[d].parent]])
    /\ Same

WriteIndex(r) ==
    /\ run[r].pc = "indexes"
    /\ \E h \in run[r].todo :
         LET d == Known(r, h)
             under == {e \in DOMAIN run[r].parent : run[r].parent[e] = d}
         IN  /\ Update(d, [docs[d] EXCEPT !.text = "index", !.lists = under \ {d}])
             /\ Goes(r, [run[r] EXCEPT !.todo = @ \ {h}])

WriteRoot(r) ==
    LET d == Known(r, Root)
    IN  /\ run[r].pc = "indexes" /\ run[r].todo = {}
        /\ Update(d, [docs[d] EXCEPT !.text = "index"])
        /\ Goes(r, [Idle EXCEPT !.pc = "done"])

\* urlopen raises, or the process is killed.
Fail(r) == /\ Running(r)
           /\ Goes(r, [Idle EXCEPT !.pc = "failed"])
           /\ Same

Next == \E r \in Runs :
          \/ FirstList(r) \/ ReadNewest(r) \/ MergeText(r) \/ ArchiveExtra(r)
          \/ SecondList(r) \/ NextHub(r) \/ EnsureExisting(r) \/ EnsureMissing(r)
          \/ CreateTarget(r) \/ ThirdList(r) \/ Rewrite(r) \/ WriteFinal(r)
          \/ UnknownList(r) \/ ArchiveUnknown(r)
          \/ LastList(r) \/ WriteIndex(r) \/ WriteRoot(r)
          \/ Fail(r)

Spec == Init /\ [][Next]_vars
-----------------------------------------------------------------------------
TypeOK ==
    /\ DOMAIN docs = 1..Len(docs)
    /\ \A d \in DOMAIN docs :
         docs[d] \in [title: Titles, parent: 0..Len(docs), text: Texts,
                     lists: SUBSET DOMAIN docs, active: BOOLEAN]
    /\ Len(updated) = Len(docs) /\ {updated[d] : d \in DOMAIN updated} = DOMAIN docs
    /\ \A r \in Runs : run[r].seen \subseteq DOMAIN docs /\ run[r].title \in Titles
    /\ quiet \in [Runs -> BOOLEAN]

(* Whatever the runs interleave and wherever they fail, a title the         *)
(* repository maps, once it has an active document, always has one: two     *)
(* runs merging the same duplicates never archive each other's choice       *)
(* (canonical_doc and ensure_single_doc, which keep the oldest).            *)
TitleNeverLost ==
    [][\A t \in Desired : Entitled(t, Active) # {} => Entitled(t, Active)' # {}]_vars

(* Merging the duplicates of a title that no file maps keeps the last text  *)
(* written under it in an active document, at every point where a run may   *)
(* fail or another one list the collection (main, step 1).                  *)
NewestTextSurvives ==
    \A t \in Legacy : LET held == Entitled(t, Active)
                      IN  held # {} => \E d \in held : docs[d].text = "new"

(* A run that nobody overlapped leaves the collection in order, whatever    *)
(* state earlier runs failed in: one active document per title, with the    *)
(* final text under its hub, and indexes that list what is there.           *)
InOrder(r) ==
    /\ \A t \in Titles : Cardinality(Entitled(t, Active)) <= 1
    /\ \A t \in Desired : Entitled(t, Active) # {}
    /\ r \in Cleaning => \A d \in Active : docs[d].title \in Desired
    /\ \A d \in Active :
         LET t == docs[d].title
         IN  /\ t \in Targets => /\ docs[d].text = "final"
                                /\ docs[d].parent \in Entitled(HubOf[t], Active)
             /\ t \in Hubs => /\ docs[d].text = "index"
                             /\ docs[d].parent \in Entitled(Root, Active)
                             /\ docs[d].lists = {e \in Active : docs[e].parent = d}

QuietSyncConverges == \A r \in Runs : run[r].pc = "done" /\ quiet[r] => InOrder(r)
=============================================================================
