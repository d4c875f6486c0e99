------------------------------- MODULE Files --------------------------------
(***************************************************************************)
(* One stored file: its row, the object under its key, the tombstone that  *)
(* remembers to delete that object, and the session of a resumable upload, *)
(* in three stores without a transaction over them                         *)
(* (src/src/storage/{resource,cleanup,resumable,upload-sessions}.ts).      *)
(* Requests and maintenance jobs are routines; a step of one runs from one *)
(* store operation to the next. The file comes to be on one of three       *)
(* routes: sent whole, put by the client to a signed URL and confirmed, or *)
(* in parts that the server assembles (in the fallback mode, where a part  *)
(* is an object). Objects are good or bad: what the content checks say.    *)
(***************************************************************************)
EXTENDS Integers, FiniteSets

CONSTANTS
    Routes,         \* how a file may come to be
    Hands,          \* those who serve requests and run the maintenance jobs
    MaxAsks,        \* bound: requests and jobs, by route
    MaxPuts,        \* bound: puts to the signed URL
    MaxMishaps,     \* bound: crashes, failures of the object store and of the insert, lapses, by route
    MaxErasures     \* config.maxAttempts of a deletion

ASSUME FilesAssumption ==
    /\ Routes \subseteq {"whole", "signed", "parts"}
    /\ {MaxAsks, MaxMishaps} \subseteq [Routes -> Nat] /\ MaxPuts \in Nat /\ MaxErasures \in Nat \ {0}

VARIABLES
    route,
    blob,           \* the object: "none", "good" or "bad"
    row,            \* the row's status, or "none"
    tomb,           \* its deletion: attempts made (-1: none), whether it is due, the sets it is in
    session,        \* the session's hash: what of it exists, its status, the parts on record
    expiry,         \* is the session in the index by expiry?
    pieces,         \* the parts that exist as objects
    lock,           \* the completion lock's counter
    age,            \* how late it is: "fresh", "expired" (sessions), "old" (past every grace)
    hand,           \* the routines: what they do, where, and what they read
    asks, mishaps,
    puts,           \* those still to come from who holds the signed URL
    outrun,         \* ghost: routines whose check of the object a deletion has overtaken
    doomed,         \* ghost: the row was completed while a deletion was already decided on,
                    \* or while the lock no longer kept two completions apart
    swept           \* ghost: a sweep that nothing disturbed: "no", "on" or "done"

storeOfFiles == <<blob, row, tomb, session, expiry, pieces, lock>>
budgets == <<route, asks, puts, mishaps>>
filesVars == <<storeOfFiles, age, hand, budgets, outrun, doomed, swept>>

Pieces == 1..2
AtEase == [op |-> "none", at |-> "idle", saw |-> "none", tries |-> 0, parts |-> {}]
NoSession == [hash |-> "none", status |-> "active", parts |-> {}]
Live == row \in {"pending", "completed"}

Stands(h, place) == hand[h].at = place
Goes(h, place) == hand' = [hand EXCEPT ![h].at = place]
Ends(h) == hand' = [hand EXCEPT ![h] = AtEase]
Keeps(h, place, saw) == hand' = [hand EXCEPT ![h].at = place, ![h].saw = saw]
\* hset: on a hash that is gone it makes one with that field only.
WriteHash(status, parts) ==
    session' = [hash |-> IF session.hash = "none" THEN "partial" ELSE session.hash,
                status |-> status, parts |-> parts]

\* Places from which the next thing done is to delete the object,
Deleting == {"erase", "dropBlob", "scrap", "scrub", "undo"}
\* and places between the check of the object and the row that vouches for it.
Trusting == {"insert", "finish", "persist"}

Erased == /\ blob' = "none"
          /\ outrun' = outrun \cup {h \in Hands : hand[h].at \in Trusting}
Vouched(h) ==
    /\ row' = "completed"
    /\ doomed' = (doomed \/ h \in outrun \/ \E g \in Hands \ {h} : hand[g].at \in Deleting)
Mishap == mishaps < MaxMishaps[route] /\ mishaps' = mishaps + 1
Calm == UNCHANGED mishaps
\* storage.deleteMany of the parts: all of them, or some and an error.
PartsGone == pieces' = {} /\ Calm
PartsLeft == Mishap /\ pieces' \in SUBSET pieces

-----------------------------------------------------------------------------
(* Sent whole: POST of a file resource *)

\* storage.upload under a new key.
UploadWhole(h) ==
    /\ Stands(h, "upload")
    /\ blob' = "good" /\ Goes(h, "insert")
    /\ Calm /\ UNCHANGED <<row, tomb, session, expiry, pieces, lock, outrun, doomed>>

\* persistFile. When it fails the object is settled: that the row is there nevertheless, of an
\* insert whose hooks or push have failed, is left to settleBlobDeletion to find out.
InsertWhole(h) ==
    /\ Stands(h, "insert")
    /\ \/ Vouched(h) /\ Ends(h) /\ Calm
       \/ Vouched(h) /\ Goes(h, "recall") /\ Mishap
       \/ Mishap /\ Goes(h, "recall") /\ UNCHANGED <<row, doomed>>
    /\ UNCHANGED <<blob, tomb, session, expiry, pieces, lock, outrun>>

-----------------------------------------------------------------------------
(* Signed: GET upload-url, the client's put, POST confirm *)

SignUrl(h) ==
    /\ Stands(h, "sign")
    /\ row' = "pending" /\ Ends(h)
    /\ Calm /\ UNCHANGED <<blob, tomb, session, expiry, pieces, lock, outrun, doomed>>

\* The URL is used for as long as it is valid, which outlasts the row when the file is deleted.
ClientPuts(content) ==
    /\ puts > 0 /\ age = "fresh"
    /\ puts' = puts - 1
    /\ blob' = content /\ swept' = "no"
    /\ UNCHANGED <<row, tomb, session, expiry, pieces, lock, age, hand, route, asks, mishaps, outrun, doomed>>

FindFile(h) ==
    /\ Stands(h, "find")
    /\ IF row = "pending" THEN Goes(h, "inspect") ELSE Ends(h)
    /\ Calm /\ UNCHANGED <<storeOfFiles, outrun, doomed>>

\* getMetadata, whose error ends the request, and checkSize.
Inspect(h) ==
    /\ Stands(h, "inspect")
    /\ \/ blob = "none" /\ Ends(h) /\ Calm
       \/ blob # "none" /\ Goes(h, "head") /\ Calm
       \/ blob = "bad" /\ Goes(h, "reject") /\ Calm
       \/ Ends(h) /\ Mishap
    /\ UNCHANGED <<storeOfFiles, outrun, doomed>>

\* readObjectHead and checkContent: an object store that fails is taken for a bad file.
ReadHead(h) ==
    /\ Stands(h, "head")
    /\ \/ Goes(h, IF blob = "good" THEN "finish" ELSE "reject") /\ Calm
       \/ Goes(h, "reject") /\ Mishap
    /\ UNCHANGED <<storeOfFiles, outrun, doomed>>

\* The update asks for no particular status: whatever the row has become.
FinishConfirm(h) ==
    /\ Stands(h, "finish")
    /\ IF row = "none" THEN UNCHANGED <<row, doomed>> ELSE Vouched(h)
    /\ Ends(h)
    /\ Calm /\ UNCHANGED <<blob, tomb, session, expiry, pieces, lock, outrun>>

RejectConfirm(h) ==
    /\ Stands(h, "reject")
    /\ row' = IF row = "none" THEN "none" ELSE "rejected"
    /\ Goes(h, "recall")
    /\ Calm /\ UNCHANGED <<blob, tomb, session, expiry, pieces, lock, outrun, doomed>>

-----------------------------------------------------------------------------
(* DELETE: a tombstone, the row, the object *)

ReadRow(h) ==
    /\ Stands(h, "look")
    /\ IF row = "none" THEN Ends(h) ELSE Goes(h, "entomb")
    /\ Calm /\ UNCHANGED <<storeOfFiles, outrun, doomed>>

\* onBeforeDelete reads the row again; writeDeletion's first half.
Entomb(h) ==
    /\ Stands(h, "entomb")
    /\ IF row = "none" THEN Goes(h, "remove") /\ UNCHANGED tomb
       ELSE /\ Goes(h, "list")
            /\ tomb' = [tomb EXCEPT !.attempts = 0, !.due = FALSE]
    /\ Calm /\ UNCHANGED <<blob, row, session, expiry, pieces, lock, outrun, doomed>>

\* writeDeletion's second half, of a deletion that is prepared ("list") or put off ("relist").
ListTomb(h) ==
    /\ Stands(h, "list") \/ Stands(h, "relist")
    /\ tomb' = [tomb EXCEPT !.pending = TRUE]
    /\ IF Stands(h, "list") THEN Goes(h, "remove") ELSE Ends(h)
    /\ Calm /\ UNCHANGED <<blob, row, session, expiry, pieces, lock, outrun, doomed>>

RemoveRow(h) ==
    /\ Stands(h, "remove")
    /\ row' = "none" /\ Goes(h, "recall")
    /\ Calm /\ UNCHANGED <<blob, tomb, session, expiry, pieces, lock, outrun, doomed>>

-----------------------------------------------------------------------------
(* settleBlobDeletion and drainBlobDeletions *)

\* settle: the tombstone's attempts, when there is one.
Recall(h) ==
    /\ Stands(h, "recall")
    /\ hand' = [hand EXCEPT ![h].at = "refs", ![h].tries = IF tomb.attempts = -1 THEN 0 ELSE tomb.attempts]
    /\ Calm /\ UNCHANGED <<storeOfFiles, outrun, doomed>>

\* drain: the ids that are pending,
Drain(h) ==
    /\ Stands(h, "drain")
    /\ IF tomb.pending THEN Goes(h, "fetch") ELSE Ends(h)
    /\ Calm /\ UNCHANGED <<storeOfFiles, outrun, doomed>>

\* and what the hash holds of each.
FetchTomb(h) ==
    /\ Stands(h, "fetch")
    /\ hand' = IF tomb.attempts = -1 THEN [hand EXCEPT ![h].at = "unlistOnly"]
               ELSE IF ~tomb.due THEN [hand EXCEPT ![h] = AtEase]
               ELSE [hand EXCEPT ![h].at = "refs", ![h].tries = tomb.attempts]
    /\ Calm /\ UNCHANGED <<storeOfFiles, outrun, doomed>>

\* Mutant of Referenced: only a file that was refused keeps its object.
ReferencedInverted == row = "rejected"

\* refs.some(isLiveReference)
Referenced == Live

\* A live reference: settle puts the deletion off, drain drops it.
FindReferences(h) ==
    /\ Stands(h, "refs")
    /\ Goes(h, IF ~Referenced THEN "erase" ELSE IF hand[h].op = "drain" THEN "unlist" ELSE "defer")
    /\ Calm /\ UNCHANGED <<storeOfFiles, outrun, doomed>>

EraseBlob(h) ==
    /\ Stands(h, "erase")
    /\ \/ Erased /\ Goes(h, "unlist") /\ Calm
       \/ Mishap /\ Goes(h, "fail") /\ UNCHANGED <<blob, outrun>>
    /\ UNCHANGED <<row, tomb, session, expiry, pieces, lock, doomed>>

\* clearDeletion, in two operations.
Unlist(h) ==
    /\ Stands(h, "unlist") \/ Stands(h, "unlistOnly")
    /\ tomb' = [tomb EXCEPT !.pending = FALSE]
    /\ IF Stands(h, "unlist") THEN Goes(h, "unhash") ELSE Ends(h)
    /\ Calm /\ UNCHANGED <<blob, row, session, expiry, pieces, lock, outrun, doomed>>

Unhash(h) ==
    /\ Stands(h, "unhash")
    /\ tomb' = [tomb EXCEPT !.attempts = -1, !.due = FALSE] /\ Ends(h)
    /\ Calm /\ UNCHANGED <<blob, row, session, expiry, pieces, lock, outrun, doomed>>

Defer(h) ==
    /\ Stands(h, "defer")
    /\ tomb' = [tomb EXCEPT !.attempts = hand[h].tries, !.due = FALSE] /\ Goes(h, "relist")
    /\ Calm /\ UNCHANGED <<blob, row, session, expiry, pieces, lock, outrun, doomed>>

\* recordFailure: tried again later, or given up and parked.
RecordFailure(h) ==
    /\ Stands(h, "fail")
    /\ tomb' = [tomb EXCEPT !.attempts = hand[h].tries + 1, !.due = FALSE]
    /\ Goes(h, IF hand[h].tries + 1 >= MaxErasures THEN "park" ELSE "relist")
    /\ Calm /\ UNCHANGED <<blob, row, session, expiry, pieces, lock, outrun, doomed>>

Park(h) ==
    /\ Stands(h, "park") \/ Stands(h, "bury")
    /\ tomb' = IF Stands(h, "park") THEN [tomb EXCEPT !.pending = FALSE] ELSE [tomb EXCEPT !.dead = TRUE]
    /\ IF Stands(h, "park") THEN Goes(h, "bury") ELSE Ends(h)
    /\ Calm /\ UNCHANGED <<blob, row, session, expiry, pieces, lock, outrun, doomed>>

-----------------------------------------------------------------------------
(* sweepOrphanedBlobs *)

\* expireSessions: the ids in the index that have expired,
ExpireSessions(h) ==
    /\ Stands(h, "sweep")
    /\ Goes(h, IF age # "fresh" /\ expiry THEN "expire" ELSE "stale")
    /\ Calm /\ UNCHANGED <<storeOfFiles, outrun, doomed>>

\* what each is (a hash without its session field counts as gone),
LoadExpired(h) ==
    /\ Stands(h, "expire")
    /\ Goes(h, IF session.hash = "whole" /\ session.status # "completed" THEN "purge" ELSE "dropSession")
    /\ Calm /\ UNCHANGED <<storeOfFiles, outrun, doomed>>

\* and its parts.
PurgeParts(h) ==
    /\ Stands(h, "purge")
    /\ \/ PartsGone /\ Goes(h, "dropSession")
       \/ PartsLeft /\ Goes(h, "stale")
    /\ UNCHANGED <<blob, row, tomb, session, expiry, lock, outrun, doomed>>

\* deleteUploadSession, in two operations: of a sweep or of an abort.
DropSession(h) ==
    /\ Stands(h, "dropSession")
    /\ session' = NoSession /\ lock' = 0 /\ Goes(h, "dropExpiry")
    /\ Calm /\ UNCHANGED <<blob, row, tomb, expiry, pieces, outrun, doomed>>

DropExpiry(h) ==
    /\ Stands(h, "dropExpiry")
    /\ expiry' = FALSE
    /\ IF hand[h].op = "sweep" THEN Goes(h, "stale") ELSE Ends(h)
    /\ Calm /\ UNCHANGED <<blob, row, tomb, session, pieces, lock, outrun, doomed>>

\* Mutant of Stale: a row that was refused is not stale.
StalePending == age = "old" /\ row = "pending"

\* findStaleUploads
Stale == age = "old" /\ row \in {"pending", "rejected"}

FindStale(h) ==
    /\ Stands(h, "stale")
    /\ Goes(h, IF Stale THEN "dropBlob" ELSE "orphans")
    /\ Calm /\ UNCHANGED <<storeOfFiles, outrun, doomed>>

\* The object, then the row, whatever its status is by now.
DropStaleBlob(h) ==
    /\ Stands(h, "dropBlob")
    /\ \/ Erased /\ Goes(h, "dropRow") /\ Calm
       \/ Mishap /\ Goes(h, "orphans") /\ UNCHANGED <<blob, outrun>>
    /\ UNCHANGED <<row, tomb, session, expiry, pieces, lock, doomed>>

DropStaleRow(h) ==
    /\ Stands(h, "dropRow")
    /\ row' = "none" /\ Goes(h, "orphans")
    /\ Calm /\ UNCHANGED <<blob, tomb, session, expiry, pieces, lock, outrun, doomed>>

\* scanOrphans lists the parts before the object. No session is live by then: each part goes,
ScanParts(h) ==
    /\ Stands(h, "orphans") /\ age = "old"
    /\ \E n \in pieces \ hand[h].parts :
          /\ hand' = [hand EXCEPT ![h].parts = @ \cup {n}]
          /\ \/ pieces' = pieces \ {n} /\ Calm
             \/ UNCHANGED pieces /\ Mishap
    /\ UNCHANGED <<blob, row, tomb, session, expiry, lock, outrun, doomed>>

\* and the object when nothing references it.
ScanOrphans(h) ==
    /\ Stands(h, "orphans") /\ (age = "old" => pieces \subseteq hand[h].parts)
    /\ IF age = "old" /\ blob # "none" /\ ~Referenced THEN Goes(h, "scrap") ELSE Ends(h)
    /\ Calm /\ UNCHANGED <<storeOfFiles, outrun, doomed>>

ScrapOrphan(h) ==
    /\ Stands(h, "scrap")
    /\ \/ Erased /\ Calm
       \/ Mishap /\ UNCHANGED <<blob, outrun>>
    /\ Ends(h)
    /\ UNCHANGED <<row, tomb, session, expiry, pieces, lock, doomed>>

-----------------------------------------------------------------------------
(* In parts: the session, its parts, and giving it up *)

\* createUploadSession: the hash, its time to live, the index by expiry.
OpenSession(h) ==
    /\ Stands(h, "open")
    /\ session' = [NoSession EXCEPT !.hash = "whole"] /\ Goes(h, "ttl")
    /\ Calm /\ UNCHANGED <<blob, row, tomb, expiry, pieces, lock, outrun, doomed>>

LimitSession(h) ==
    /\ Stands(h, "ttl")
    /\ Goes(h, "index")
    /\ Calm /\ UNCHANGED <<storeOfFiles, outrun, doomed>>

IndexSession(h) ==
    /\ Stands(h, "index")
    /\ expiry' = TRUE /\ Ends(h)
    /\ Calm /\ UNCHANGED <<blob, row, tomb, session, pieces, lock, outrun, doomed>>

\* PUT of a part: a first part with the wrong content ends the session, another one's type is kept.
LoadForPart(h) ==
    /\ Stands(h, "loadPart")
    /\ IF session.hash = "whole" /\ session.status = "active" /\ age = "fresh"
       THEN \/ Goes(h, IF hand[h].parts = {1} THEN "sniff" ELSE "store") /\ Calm
            \/ hand[h].parts = {1} /\ Goes(h, "discard") /\ Mishap
       ELSE Ends(h) /\ Calm
    /\ UNCHANGED <<storeOfFiles, outrun, doomed>>

\* recordSniffedType
RecordType(h) ==
    /\ Stands(h, "sniff")
    /\ WriteHash(session.status, session.parts) /\ Goes(h, "store")
    /\ Calm /\ UNCHANGED <<blob, row, tomb, expiry, pieces, lock, outrun, doomed>>

StorePart(h) ==
    /\ Stands(h, "store")
    /\ pieces' = pieces \cup hand[h].parts /\ Goes(h, "record")
    /\ Calm /\ UNCHANGED <<blob, row, tomb, session, expiry, lock, outrun, doomed>>

RecordPart(h) ==
    /\ Stands(h, "record")
    /\ WriteHash(session.status, session.parts \cup hand[h].parts) /\ Ends(h)
    /\ Calm /\ UNCHANGED <<blob, row, tomb, expiry, pieces, lock, outrun, doomed>>

\* DELETE of a session
LoadForAbort(h) ==
    /\ Stands(h, "loadAbort")
    /\ IF session.hash # "whole" \/ session.status = "completed" THEN Ends(h)
       ELSE Keeps(h, "discard", session.status)
    /\ Calm /\ UNCHANGED <<storeOfFiles, outrun, doomed>>

\* abortSession: the parts, and the object when a completion was under way that left no row.
DiscardParts(h) ==
    /\ Stands(h, "discard")
    /\ \/ PartsGone /\ Goes(h, IF hand[h].saw = "completing" THEN "findLost" ELSE "dropSession")
       \/ PartsLeft /\ Ends(h)
    /\ UNCHANGED <<blob, row, tomb, session, expiry, lock, outrun, doomed>>

FindLost(h) ==
    /\ Stands(h, "findLost")
    /\ Goes(h, IF row = "none" THEN "scrub" ELSE "dropSession")
    /\ Calm /\ UNCHANGED <<storeOfFiles, outrun, doomed>>

\* Failures are ignored.
ScrubBlob(h) ==
    /\ Stands(h, "scrub")
    /\ \/ Erased /\ Calm
       \/ Mishap /\ UNCHANGED <<blob, outrun>>
    /\ Goes(h, "dropSession")
    /\ UNCHANGED <<row, tomb, session, expiry, pieces, lock, doomed>>

-----------------------------------------------------------------------------
(* POST complete *)

LoadForComplete(h) ==
    /\ Stands(h, "load")
    /\ IF session.hash = "whole" /\ session.status \notin {"completed", "failed"} /\ age = "fresh"
       THEN Goes(h, "lock") ELSE Ends(h)
    /\ Calm /\ UNCHANGED <<storeOfFiles, outrun, doomed>>

\* acquireCompletionLock: the first to count.
TakeLock(h) ==
    /\ Stands(h, "lock")
    /\ lock' = lock + 1
    /\ IF lock = 0 THEN Goes(h, "reload") ELSE Ends(h)
    /\ Calm /\ UNCHANGED <<blob, row, tomb, session, expiry, pieces, outrun, doomed>>

Reload(h) ==
    /\ Stands(h, "reload")
    /\ hand' = [hand EXCEPT ![h].at = IF session.hash = "whole" THEN "exist" ELSE "unlock",
                            ![h].saw = session.status, ![h].parts = session.parts]
    /\ Calm /\ UNCHANGED <<storeOfFiles, outrun, doomed>>

\* A file that is there already: only the session may have to hear of it.
FindExisting(h) ==
    /\ Stands(h, "exist")
    /\ IF row = "none" THEN Goes(h, "parts")
       ELSE IF hand[h].saw = "completed" THEN Goes(h, "unlock") ELSE Keeps(h, "mark", "existing")
    /\ Calm /\ UNCHANGED <<storeOfFiles, outrun, doomed>>

\* An earlier attempt may have assembled the object; otherwise every part must be on record,
CheckParts(h) ==
    /\ Stands(h, "parts")
    /\ IF hand[h].saw = "completing" /\ blob # "none" THEN Keeps(h, "begin", "ready")
       ELSE IF hand[h].parts # Pieces THEN Goes(h, "unlock")
       ELSE hand' = [hand EXCEPT ![h].at = "probe", ![h].tries = 0, ![h].parts = {}]
    /\ Calm /\ UNCHANGED <<storeOfFiles, outrun, doomed>>

\* and be there: one after the other is asked for, and those that have vanished are kept in mind.
ProbePart(h) ==
    LET n == hand[h].tries + 1
        vanished == hand[h].parts \cup ({n} \ pieces) IN
    /\ Stands(h, "probe")
    /\ IF n \in Pieces
       THEN hand' = [hand EXCEPT ![h].tries = n, ![h].parts = vanished]
       ELSE Goes(h, IF hand[h].parts = {} THEN "begin" ELSE "forget")
    /\ Calm /\ UNCHANGED <<storeOfFiles, outrun, doomed>>

\* They are to be sent again, whatever has been sent since.
ForgetPart(h) ==
    /\ Stands(h, "forget")
    /\ \E n \in hand[h].parts :
          /\ session' = [session EXCEPT !.parts = @ \ {n}]
          /\ hand' = [hand EXCEPT ![h].parts = @ \ {n},
                                  ![h].at = IF hand[h].parts = {n} THEN "unlock" ELSE "forget"]
    /\ Calm /\ UNCHANGED <<blob, row, tomb, expiry, pieces, lock, outrun, doomed>>

Begin(h) ==
    /\ Stands(h, "begin")
    /\ WriteHash("completing", session.parts)
    /\ Goes(h, IF hand[h].saw = "ready" THEN "verify" ELSE "assemble")
    /\ Calm /\ UNCHANGED <<blob, row, tomb, expiry, pieces, lock, outrun, doomed>>

Assemble(h) ==
    /\ Stands(h, "assemble")
    /\ \/ pieces = Pieces /\ blob' = "good" /\ Goes(h, "verify") /\ Calm
       \/ pieces # Pieces /\ Goes(h, "unlock") /\ Calm /\ UNCHANGED blob
       \/ Mishap /\ Goes(h, "unlock") /\ UNCHANGED blob
    /\ UNCHANGED <<row, tomb, session, expiry, pieces, lock, outrun, doomed>>

\* The object's size, and the checksum that the client may have announced wrongly.
Verify(h) ==
    /\ Stands(h, "verify")
    /\ \/ Goes(h, IF blob = "none" THEN "undo" ELSE "persist") /\ Calm
       \/ Goes(h, "undo") /\ Mishap
    /\ UNCHANGED <<storeOfFiles, outrun, doomed>>

\* failSession, which ignores failures: the object, the parts, the status.
UndoBlob(h) ==
    /\ Stands(h, "undo")
    /\ \/ Erased /\ Calm
       \/ Mishap /\ UNCHANGED <<blob, outrun>>
    /\ Goes(h, "undoParts")
    /\ UNCHANGED <<row, tomb, session, expiry, pieces, lock, doomed>>

UndoParts(h) ==
    /\ Stands(h, "undoParts")
    /\ PartsGone \/ PartsLeft
    /\ Goes(h, "markFailed")
    /\ UNCHANGED <<blob, row, tomb, session, expiry, lock, outrun, doomed>>

MarkFailed(h) ==
    /\ Stands(h, "markFailed")
    /\ WriteHash("failed", session.parts) /\ Goes(h, "unlock")
    /\ Calm /\ UNCHANGED <<blob, row, tomb, expiry, pieces, lock, outrun, doomed>>

\* persist: the id was fixed when the session was created, so there is one row at most. It may
\* fail before the insert, or after it: then the next completion finds the row.
Persist(h) ==
    /\ Stands(h, "persist")
    /\ \/ row = "none" /\ Vouched(h) /\ Goes(h, "mark") /\ Calm
       \/ row = "none" /\ Vouched(h) /\ Goes(h, "unlock") /\ Mishap
       \/ row # "none" /\ Goes(h, "unlock") /\ Calm /\ UNCHANGED <<row, doomed>>
       \/ Mishap /\ Goes(h, "unlock") /\ UNCHANGED <<row, doomed>>
    /\ UNCHANGED <<blob, tomb, session, expiry, pieces, lock, outrun>>

MarkCompleted(h) ==
    /\ Stands(h, "mark")
    /\ WriteHash("completed", session.parts)
    /\ Goes(h, IF hand[h].saw = "existing" THEN "unlock" ELSE "clear")
    /\ Calm /\ UNCHANGED <<blob, row, tomb, expiry, pieces, lock, outrun, doomed>>

ClearParts(h) ==
    /\ Stands(h, "clear")
    /\ PartsGone \/ PartsLeft
    /\ Goes(h, "unlock")
    /\ UNCHANGED <<blob, row, tomb, session, expiry, lock, outrun, doomed>>

\* Whoever holds it by now.
ReleaseLock(h) ==
    /\ Stands(h, "unlock")
    /\ lock' = 0 /\ Ends(h)
    /\ Calm /\ UNCHANGED <<blob, row, tomb, session, expiry, pieces, outrun, doomed>>

-----------------------------------------------------------------------------

\* Where each request and each job begins. A sweep before anything expires changes nothing.
Begins(op) ==
    CASE op = "post" -> "upload"     [] op = "sign" -> "sign"      [] op = "create" -> "open"
      [] op = "confirm" -> "find"    [] op = "delete" -> "look"    [] op = "drain" -> "drain"
      [] op = "sweep" -> "sweep"     [] op = "abort" -> "loadAbort"
      [] op = "complete" -> "load"   [] op = "part" -> "loadPart"
Offered ==
    IF asks = 0 THEN {CASE route = "whole" -> "post" [] route = "signed" -> "sign" [] route = "parts" -> "create"}
    ELSE {"delete", "drain"} \cup {x \in {"sweep"} : age # "fresh"}
         \cup {x \in {"confirm"} : route = "signed"}
         \cup {x \in {"part", "complete", "abort"} : route = "parts"}

TakeUp(h, op, n) ==
    /\ Stands(h, "idle") /\ asks < MaxAsks[route] /\ op \in Offered
    /\ hand' = [hand EXCEPT ![h] = [AtEase EXCEPT !.op = op, !.at = Begins(op),
                                                 !.parts = IF op = "part" THEN {n} ELSE {}]]
    /\ asks' = asks + 1 /\ outrun' = outrun \ {h}
    /\ swept' = IF op = "sweep" /\ age = "old" /\ \A g \in Hands : Stands(g, "idle") THEN "on" ELSE "no"
    /\ UNCHANGED <<storeOfFiles, age, route, puts, mishaps, doomed>>

ServeStep(h) ==
    \/ UploadWhole(h) \/ InsertWhole(h) \/ SignUrl(h) \/ FindFile(h) \/ Inspect(h) \/ ReadHead(h)
    \/ FinishConfirm(h) \/ RejectConfirm(h) \/ ReadRow(h) \/ Entomb(h) \/ ListTomb(h) \/ RemoveRow(h)
    \/ Recall(h) \/ Drain(h) \/ FetchTomb(h) \/ FindReferences(h) \/ EraseBlob(h) \/ Unlist(h)
    \/ Unhash(h) \/ Defer(h) \/ RecordFailure(h) \/ Park(h)
    \/ ExpireSessions(h) \/ LoadExpired(h) \/ PurgeParts(h) \/ DropSession(h) \/ DropExpiry(h)
    \/ FindStale(h) \/ DropStaleBlob(h) \/ DropStaleRow(h) \/ ScanParts(h) \/ ScanOrphans(h)
    \/ ScrapOrphan(h)
    \/ OpenSession(h) \/ LimitSession(h) \/ IndexSession(h) \/ LoadForPart(h) \/ RecordType(h)
    \/ StorePart(h) \/ RecordPart(h) \/ LoadForAbort(h) \/ DiscardParts(h) \/ FindLost(h)
    \/ ScrubBlob(h) \/ LoadForComplete(h) \/ TakeLock(h) \/ Reload(h) \/ FindExisting(h)
    \/ CheckParts(h) \/ ProbePart(h) \/ ForgetPart(h) \/ Begin(h) \/ Assemble(h) \/ Verify(h)
    \/ UndoBlob(h) \/ UndoParts(h) \/ MarkFailed(h) \/ Persist(h) \/ MarkCompleted(h)
    \/ ClearParts(h) \/ ReleaseLock(h)

\* Who has signed a URL answers with it.
Serves(h) ==
    /\ ServeStep(h)
    /\ swept' = IF hand[h].op = "sweep" /\ swept = "on" /\ mishaps' = mishaps
                THEN IF hand'[h] = AtEase THEN "done" ELSE "on" ELSE "no"
    /\ puts' = IF Stands(h, "sign") THEN MaxPuts ELSE puts
    /\ UNCHANGED <<age, route, asks>>

\* A request or a job ends with its process.
Crashes(h) ==
    /\ ~Stands(h, "idle") /\ Mishap
    /\ Ends(h) /\ swept' = "no"
    /\ UNCHANGED <<storeOfFiles, age, route, asks, puts, outrun, doomed>>

\* The completion lock's time to live ends, perhaps before the completion: two completions, of
\* which one fails, then undo each other's work.
LockLapses ==
    /\ lock > 0 /\ Mishap
    /\ lock' = 0 /\ swept' = "no"
    /\ doomed' = (doomed \/ \E h \in Hands : hand[h].op = "complete" /\ hand[h].at \notin {"load", "lock"})
    /\ UNCHANGED <<blob, row, tomb, session, expiry, pieces, age, hand, route, asks, puts, outrun>>

\* A deletion comes due. Requests do not last for the five minutes of a prepared one,
TombDue ==
    /\ tomb.attempts # -1 /\ ~tomb.due /\ \A h \in Hands : hand[h].at \notin {"list", "remove"}
    /\ tomb' = [tomb EXCEPT !.due = TRUE] /\ swept' = "no"
    /\ UNCHANGED <<blob, row, session, expiry, pieces, lock, age, hand, budgets, outrun, doomed>>

\* nor does the opening of a session for as long as the session: others may straddle its end.
SessionsExpire ==
    /\ age = "fresh" /\ route = "parts" /\ asks > 0
    /\ \A h \in Hands : hand[h].at \notin {"open", "ttl", "index"}
    /\ age' = "expired" /\ swept' = "no"
    /\ UNCHANGED <<storeOfFiles, hand, budgets, outrun, doomed>>

\* No request or job lasts for a day.
DayPasses ==
    /\ age # "old" /\ asks > 0 /\ \A h \in Hands : Stands(h, "idle")
    /\ age' = "old" /\ swept' = "no"
    /\ UNCHANGED <<storeOfFiles, hand, budgets, outrun, doomed>>

FilesInit ==
    /\ route \in Routes
    /\ blob = "none" /\ row = "none" /\ session = NoSession /\ expiry = FALSE /\ pieces = {} /\ lock = 0
    /\ tomb = [attempts |-> -1, due |-> FALSE, pending |-> FALSE, dead |-> FALSE]
    /\ age = "fresh" /\ hand = [h \in Hands |-> AtEase]
    /\ asks = 0 /\ puts = 0 /\ mishaps = 0 /\ outrun = {} /\ doomed = FALSE /\ swept = "no"

FilesNext ==
    \/ \E h \in Hands : Serves(h) \/ Crashes(h)
    \/ \E h \in Hands, op \in {"post", "sign", "create", "confirm", "delete", "drain", "sweep",
                               "abort", "complete"} : TakeUp(h, op, 0)
    \/ \E h \in Hands, n \in Pieces : TakeUp(h, "part", n)
    \/ \E content \in {"good", "bad"} : ClientPuts(content)
    \/ LockLapses \/ TombDue \/ SessionsExpire \/ DayPasses

FilesSpec == FilesInit /\ [][FilesNext]_filesVars

-----------------------------------------------------------------------------
(* Properties *)

\* "No ordering deletes a still-referenced blob" (contracts/storage.md:59): a completed row has
\* its object, unless the deletion was decided on before the row was completed, or two completions
\* have overlapped.
FilesWhole == row = "completed" /\ ~doomed => blob # "none"

\* A sweep that runs alone when everything is old leaves nothing that nobody needs: no object but
\* a completed row's, no part, no session in the index, no row that waits for a file. (A session
\* that is in no index ends by its time to live, unless a late write made its hash anew.)
FilesSwept ==
    swept = "done" => /\ row \in {"none", "completed"}
                      /\ blob # "none" => row = "completed"
                      /\ pieces = {} /\ ~expiry
=============================================================================
