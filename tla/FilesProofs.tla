---------------------------- MODULE FilesProofs -----------------------------
(***************************************************************************)
(* Files, for any hands, routes and budgets of requests, puts and mishaps: *)
(* no ordering deletes a referenced object, and an undisturbed sweep       *)
(* leaves nothing behind.                                                  *)
(*                                                                         *)
(* FilesWhole alone is not inductive. That no deletion is under way beside *)
(* a completed row rests on what every routine still knows at its place:   *)
(* that the object it has checked is there unless a deletion has overtaken *)
(* it, that its deletion is of an object without a completed row, and that *)
(* the completion lock keeps two completions apart, which a lock that is   *)
(* deleted with its session does not do by itself: then the session that   *)
(* the next completion reads again is no longer whole.                     *)
(***************************************************************************)
EXTENDS Files, TLAPS

\* The places of a completion that has the lock.
Within == {"exist", "parts", "probe", "forget", "begin", "assemble", "verify", "persist", "undo",
           "undoParts", "markFailed", "mark", "clear"}
Locked == Within \cup {"reload", "unlock"}
Places == {"idle", "upload", "insert", "sign", "find", "inspect", "finish", "reject", "look",
           "entomb", "list", "relist", "remove", "recall", "drain", "refs", "erase", "unlist",
           "unlistOnly", "unhash", "defer", "fail", "park", "bury", "sweep", "dropSession",
           "dropExpiry", "stale", "dropBlob", "dropRow", "orphans", "scrap", "open", "index",
           "loadPart", "store", "record", "loadAbort", "discard", "findLost", "scrub", "load",
           "lock", "exist", "parts", "forget", "begin", "assemble", "verify", "persist", "undo",
           "undoParts", "markFailed", "mark", "clear", "reload", "unlock", "head", "fetch", "ttl",
           "sniff", "probe", "expire", "purge"}
Ops == {"none", "post", "sign", "create", "confirm", "delete", "drain", "sweep", "abort",
        "complete", "part"}
Sights == {"none", "existing", "ready", "active", "completing", "completed", "failed"}

Routine == [op : Ops, at : Places, saw : Sights, tries : Nat, parts : SUBSET Pieces]
Tomb == [attempts : Nat \cup {-1}, due : BOOLEAN, pending : BOOLEAN, dead : BOOLEAN]
Session == [hash : {"none", "partial", "whole"}, status : Sights, parts : SUBSET Pieces]

StoresTyped ==
    /\ blob \in {"none", "good", "bad"}
    /\ row \in {"none", "pending", "rejected", "completed"}
    /\ tomb \in Tomb /\ session \in Session /\ expiry \in BOOLEAN
    /\ pieces \in SUBSET Pieces /\ lock \in Nat
    /\ hand \in [Hands -> Routine]
    /\ outrun \in SUBSET Hands /\ doomed \in BOOLEAN
    /\ mishaps \in Nat

FilesTypeOK ==
    /\ StoresTyped
    /\ route \in Routes /\ age \in {"fresh", "expired", "old"} /\ asks \in Nat /\ puts \in Nat
    /\ swept \in {"no", "on", "done"}

\* Each place belongs to a request of one route.
OnRoute ==
    \A h \in Hands :
        /\ hand[h].at \in {"upload", "insert"} => route = "whole"
        /\ hand[h].at \in {"find", "inspect", "head", "finish", "reject"} => route = "signed"
        /\ hand[h].at \in Locked \cup {"load", "lock"} => hand[h].op = "complete"
        /\ hand[h].op = "complete" => route = "parts"

\* Before the first request everybody is idle, and the session is made by the first request only,
\* before anybody finds one.
OneOpening ==
    /\ asks = 0 => session.hash = "none" /\ \A h \in Hands : hand[h].at = "idle"
    /\ \A h \in Hands : hand[h].at = "open" =>
          /\ session.hash = "none"
          /\ \A g \in Hands \ {h} : hand[g].at \notin Locked \cup {"open", "sniff", "store", "record", "lock"}

\* The lock, or the session that went with it, keeps completions apart.
Apart ==
    ~doomed =>
        /\ session.hash = "whole" =>
              \A h \in Hands : hand[h].at \in Locked =>
                  lock > 0 /\ \A g \in Hands \ {h} : hand[g].at \notin Locked
        /\ \A h \in Hands : hand[h].at \in Within =>
              \A g \in Hands \ {h} : hand[g].at \notin Within

\* A completion that found no row still finds none; no deletion is under way beside a completed
\* row; and what a routine is about to vouch for is there, unless it was overtaken.
Certain ==
    /\ ~doomed =>
          \A h \in Hands :
              hand[h].at \in {"parts", "probe", "begin", "assemble", "verify", "persist"} \cup Deleting
                  => row # "completed"
    /\ \A h \in Hands : hand[h].at \in Trusting /\ h \notin outrun => blob # "none"

SweepPlaces == {"sweep", "expire", "purge", "dropSession", "dropExpiry", "stale", "dropBlob", "dropRow", "orphans",
                "scrap"}

\* What a sweep that nothing has disturbed has done at each of its places.
SweepsClean ==
    swept = "on" =>
        \E h \in Hands :
            /\ hand[h].op = "sweep" /\ \A g \in Hands \ {h} : hand[g].at = "idle"
            /\ age = "old"
            /\ hand[h].at \in SweepPlaces
            /\ hand[h].at \in {"stale", "dropBlob", "dropRow", "orphans", "scrap"} => ~expiry
            /\ hand[h].at = "dropRow" => blob = "none"
            /\ IF hand[h].at = "orphans" THEN pieces \cap hand[h].parts = {} ELSE hand[h].parts = {} \/ pieces = {}
            /\ hand[h].at = "orphans" => row \in {"none", "completed"}
            /\ hand[h].at = "scrap" => row = "none" /\ pieces = {}

Inv == FilesTypeOK /\ OnRoute /\ OneOpening /\ Apart /\ Certain /\ FilesWhole
       /\ SweepsClean /\ FilesSwept

-----------------------------------------------------------------------------

LEMMA Names ==
  /\ "idle" \in Places /\ "upload" \in Places /\ "insert" \in Places /\ "sign" \in Places /\
     "find" \in Places /\ "inspect" \in Places /\ "finish" \in Places /\ "reject" \in Places /\
     "look" \in Places /\ "entomb" \in Places /\ "list" \in Places /\ "relist" \in Places /\
     "remove" \in Places /\ "recall" \in Places /\ "drain" \in Places /\ "refs" \in Places /\
     "erase" \in Places /\ "unlist" \in Places /\ "unlistOnly" \in Places /\ "unhash" \in Places
     /\ "defer" \in Places /\ "fail" \in Places /\ "park" \in Places /\ "bury" \in Places /\
     "sweep" \in Places /\ "dropSession" \in Places /\ "dropExpiry" \in Places /\ "stale" \in
     Places /\ "dropBlob" \in Places /\ "dropRow" \in Places /\ "orphans" \in Places /\ "scrap"
     \in Places /\ "open" \in Places /\ "index" \in Places /\ "loadPart" \in Places /\ "store" \in
     Places /\ "record" \in Places /\ "loadAbort" \in Places /\ "discard" \in Places /\ "findLost"
     \in Places /\ "scrub" \in Places /\ "load" \in Places /\ "lock" \in Places /\ "exist" \in
     Places /\ "parts" \in Places /\ "forget" \in Places /\ "begin" \in Places /\ "assemble" \in
     Places /\ "verify" \in Places /\ "persist" \in Places /\ "undo" \in Places /\ "undoParts" \in
     Places /\ "markFailed" \in Places /\ "mark" \in Places /\ "clear" \in Places /\ "reload" \in
     Places /\ "unlock" \in Places /\ "head" \in Places /\ "fetch" \in Places /\ "ttl" \in Places /\ "sniff"
     \in Places /\ "probe" \in Places /\ "expire" \in Places /\ "purge" \in Places
  /\ "none" \in Sights /\ "existing" \in Sights /\ "ready" \in Sights /\ "active" \in Sights
     /\ "completing" \in Sights /\ "completed" \in Sights /\ "failed" \in Sights
  /\ "none" \in Ops
  BY DEF Places, Sights, Ops

LEMMA InvInit == FilesInit => Inv
<1> SUFFICES ASSUME FilesInit PROVE Inv
  OBVIOUS
<1> USE DEF FilesInit
<1>1. \A h \in Hands : hand[h].at = "idle"
  BY DEF AtEase
<1>2. hand \in [Hands -> Routine]
  BY Names DEF AtEase, Routine
<1>3. tomb \in Tomb /\ session \in Session
  BY Names DEF Tomb, NoSession, Session
<1>4. FilesTypeOK
  BY <1>2, <1>3 DEF FilesTypeOK, StoresTyped
<1>5. OnRoute
  BY DEF OnRoute, AtEase, Locked, Within
<1>6. OneOpening /\ Apart /\ Certain
  BY <1>1 DEF NoSession, OneOpening, Apart, Certain, Locked, Within, Deleting, Trusting
<1> QED BY <1>4, <1>5, <1>6 DEF Inv, FilesWhole, SweepsClean, FilesSwept

(* What the shared operators do to the routines *)

\* h is at place now, the others are where they were.
At(h, place) ==
    /\ hand' \in [Hands -> Routine]
    /\ hand'[h].at = place /\ hand'[h].op = hand[h].op
    /\ \A g \in Hands \ {h} : hand'[g] = hand[g]

LEMMA GoesAt ==
  ASSUME hand \in [Hands -> Routine], NEW h \in Hands, NEW place \in Places, Goes(h, place)
  PROVE  At(h, place)
  BY DEF Goes, At, Routine

LEMMA KeepsAt ==
  ASSUME hand \in [Hands -> Routine], NEW h \in Hands, NEW place \in Places,
         NEW saw \in Sights, Keeps(h, place, saw)
  PROVE  At(h, place)
  BY DEF Keeps, At, Routine

LEMMA TriesAt ==
  ASSUME hand \in [Hands -> Routine], NEW h \in Hands, NEW place \in Places, NEW n \in Nat,
         hand' = [hand EXCEPT ![h].at = place, ![h].tries = n]
  PROVE  At(h, place)
  BY DEF At, Routine

LEMMA SeesAt ==
  ASSUME hand \in [Hands -> Routine], NEW h \in Hands, NEW place \in Places, NEW saw \in Sights,
         NEW parts \in SUBSET Pieces,
         hand' = [hand EXCEPT ![h].at = place, ![h].saw = saw, ![h].parts = parts]
  PROVE  At(h, place)
  BY DEF At, Routine

LEMMA ProbesAt ==
  ASSUME hand \in [Hands -> Routine], NEW h \in Hands, NEW place \in Places, NEW n \in Nat,
         NEW parts \in SUBSET Pieces,
         hand' = [hand EXCEPT ![h].at = place, ![h].tries = n, ![h].parts = parts]
  PROVE  At(h, place)
  BY DEF At, Routine

LEMMA PartsAt ==
  ASSUME hand \in [Hands -> Routine], NEW h \in Hands, NEW place \in Places,
         NEW parts \in SUBSET Pieces,
         hand' = [hand EXCEPT ![h].at = place, ![h].parts = parts]
  PROVE  At(h, place)
  BY DEF At, Routine

LEMMA GoesKeeps ==
  ASSUME hand \in [Hands -> Routine], NEW h \in Hands, NEW place \in Places, Goes(h, place)
  PROVE  hand'[h].parts = hand[h].parts
  BY DEF Goes, Routine

LEMMA EndsAt ==
  ASSUME hand \in [Hands -> Routine], NEW h \in Hands, Ends(h)
  PROVE  /\ hand' \in [Hands -> Routine]
         /\ hand'[h] = AtEase /\ hand'[h].at = "idle" /\ hand'[h].op = "none"
         /\ \A g \in Hands \ {h} : hand'[g] = hand[g]
  BY Names DEF Ends, Routine, AtEase

-----------------------------------------------------------------------------
(* What a step of a routine does, told by the place it leaves and the place it comes to *)

SentWhole == {"upload", "insert"}
Confirming == {"find", "inspect", "head", "finish", "reject"}
Completing == Locked \cup {"load", "lock"}
Sweeping(h) ==
    \/ ExpireSessions(h) \/ LoadExpired(h) \/ PurgeParts(h) \/ DropSession(h) \/ DropExpiry(h)
    \/ FindStale(h) \/ DropStaleBlob(h) \/ DropStaleRow(h) \/ ScanParts(h) \/ ScanOrphans(h)
    \/ ScrapOrphan(h)

\* Where it may go.
Walks(h) ==
    /\ hand' \in [Hands -> Routine] /\ \A g \in Hands \ {h} : hand'[g] = hand[g]
    /\ hand[h].at # "idle" /\ (hand'[h].op = hand[h].op \/ hand'[h] = AtEase)
    /\ hand'[h].at \in SentWhole => hand[h].at \in SentWhole
    /\ hand'[h].at \in Confirming => hand[h].at \in Confirming
    /\ hand'[h].at \in Completing => hand[h].at \in Completing
    /\ hand'[h].at \in Locked => hand[h].at \in Locked \/ TakeLock(h)
    /\ hand'[h].at \in Within => hand[h].at \in Within \/ Reload(h)
    /\ hand'[h].at \in {"sniff", "store", "record"} =>
          hand[h].at \in {"sniff", "store", "record"} \/ session.hash = "whole"
    /\ hand'[h].at = "lock" => session.hash = "whole"
    /\ hand'[h].at # "open"
    /\ hand[h].at \in SweepPlaces => Sweeping(h)

LEMMA ServeWalks ==
  ASSUME StoresTyped, NEW h \in Hands, ServeStep(h)
  PROVE  Walks(h)
<1> USE DEF Walks, At, Stands, SentWhole, Confirming, Completing, Locked, Within, SweepPlaces, Sweeping
<1>1. CASE UploadWhole(h)
  BY <1>1, Names, EndsAt, GoesAt, KeepsAt DEF UploadWhole, StoresTyped
<1>2. CASE InsertWhole(h)
  BY <1>2, Names, EndsAt, GoesAt, KeepsAt DEF InsertWhole, StoresTyped
<1>3. CASE SignUrl(h)
  BY <1>3, Names, EndsAt, GoesAt, KeepsAt DEF SignUrl, StoresTyped
<1>4. CASE FindFile(h)
  BY <1>4, Names, EndsAt, GoesAt, KeepsAt DEF FindFile, StoresTyped
<1>5. CASE Inspect(h)
  BY <1>5, Names, EndsAt, GoesAt, KeepsAt DEF Inspect, StoresTyped
<1>6. CASE FinishConfirm(h)
  BY <1>6, Names, EndsAt, GoesAt, KeepsAt DEF FinishConfirm, StoresTyped
<1>7. CASE RejectConfirm(h)
  BY <1>7, Names, EndsAt, GoesAt, KeepsAt DEF RejectConfirm, StoresTyped
<1>8. CASE ReadRow(h)
  BY <1>8, Names, EndsAt, GoesAt, KeepsAt DEF ReadRow, StoresTyped
<1>9. CASE Entomb(h)
  BY <1>9, Names, EndsAt, GoesAt, KeepsAt DEF Entomb, StoresTyped
<1>10. CASE ListTomb(h)
  BY <1>10, Names, EndsAt, GoesAt, KeepsAt DEF ListTomb, StoresTyped
<1>11. CASE RemoveRow(h)
  BY <1>11, Names, EndsAt, GoesAt, KeepsAt DEF RemoveRow, StoresTyped
<1>12. CASE Recall(h)
  <2>1. (IF tomb.attempts = -1 THEN 0 ELSE tomb.attempts) \in Nat
    BY DEF StoresTyped, Tomb
  <2>2. At(h, "refs")
    BY <1>12, <2>1, Names, TriesAt DEF Recall, StoresTyped
  <2> QED BY <1>12, <2>2 DEF Recall
<1>13. CASE Drain(h)
  BY <1>13, Names, EndsAt, GoesAt, KeepsAt DEF Drain, StoresTyped
<1>14. CASE FindReferences(h)
  BY <1>14, Names, EndsAt, GoesAt, KeepsAt DEF FindReferences, StoresTyped
<1>15. CASE EraseBlob(h)
  BY <1>15, Names, EndsAt, GoesAt, KeepsAt DEF EraseBlob, StoresTyped
<1>16. CASE Unlist(h)
  BY <1>16, Names, EndsAt, GoesAt, KeepsAt DEF Unlist, StoresTyped
<1>17. CASE Unhash(h)
  BY <1>17, Names, EndsAt, GoesAt, KeepsAt DEF Unhash, StoresTyped
<1>18. CASE Defer(h)
  BY <1>18, Names, EndsAt, GoesAt, KeepsAt DEF Defer, StoresTyped
<1>19. CASE RecordFailure(h)
  BY <1>19, Names, EndsAt, GoesAt, KeepsAt DEF RecordFailure, StoresTyped
<1>20. CASE Park(h)
  BY <1>20, Names, EndsAt, GoesAt, KeepsAt DEF Park, StoresTyped
<1>21. CASE ExpireSessions(h)
  BY <1>21, Names, EndsAt, GoesAt, KeepsAt DEF ExpireSessions, StoresTyped
<1>22. CASE DropSession(h)
  BY <1>22, Names, EndsAt, GoesAt, KeepsAt DEF DropSession, StoresTyped
<1>23. CASE DropExpiry(h)
  BY <1>23, Names, EndsAt, GoesAt, KeepsAt DEF DropExpiry, StoresTyped
<1>24. CASE FindStale(h)
  BY <1>24, Names, EndsAt, GoesAt, KeepsAt DEF FindStale, StoresTyped
<1>25. CASE DropStaleBlob(h)
  BY <1>25, Names, EndsAt, GoesAt, KeepsAt DEF DropStaleBlob, StoresTyped
<1>26. CASE DropStaleRow(h)
  BY <1>26, Names, EndsAt, GoesAt, KeepsAt DEF DropStaleRow, StoresTyped
<1>27. CASE ScanOrphans(h)
  BY <1>27, Names, EndsAt, GoesAt, KeepsAt DEF ScanOrphans, StoresTyped
<1>28. CASE ScrapOrphan(h)
  BY <1>28, Names, EndsAt, GoesAt, KeepsAt DEF ScrapOrphan, StoresTyped
<1>29. CASE OpenSession(h)
  BY <1>29, Names, EndsAt, GoesAt, KeepsAt DEF OpenSession, StoresTyped
<1>30. CASE IndexSession(h)
  BY <1>30, Names, EndsAt, GoesAt, KeepsAt DEF IndexSession, StoresTyped
<1>31. CASE LoadForPart(h)
  BY <1>31, Names, EndsAt, GoesAt, KeepsAt DEF LoadForPart, StoresTyped
<1>32. CASE StorePart(h)
  BY <1>32, Names, EndsAt, GoesAt, KeepsAt DEF StorePart, StoresTyped
<1>33. CASE RecordPart(h)
  BY <1>33, Names, EndsAt, GoesAt, KeepsAt DEF RecordPart, StoresTyped
<1>34. CASE LoadForAbort(h)
  BY <1>34, Names, EndsAt, GoesAt, KeepsAt DEF LoadForAbort, StoresTyped, Session
<1>35. CASE DiscardParts(h)
  BY <1>35, Names, EndsAt, GoesAt, KeepsAt DEF DiscardParts, StoresTyped
<1>36. CASE FindLost(h)
  BY <1>36, Names, EndsAt, GoesAt, KeepsAt DEF FindLost, StoresTyped
<1>37. CASE ScrubBlob(h)
  BY <1>37, Names, EndsAt, GoesAt, KeepsAt DEF ScrubBlob, StoresTyped
<1>38. CASE LoadForComplete(h)
  BY <1>38, Names, EndsAt, GoesAt, KeepsAt DEF LoadForComplete, StoresTyped
<1>39. CASE TakeLock(h)
  BY <1>39, Names, EndsAt, GoesAt, KeepsAt DEF TakeLock, StoresTyped
<1>40. CASE Reload(h)
  <2>1. PICK place \in {"exist", "unlock"} :
           hand' = [hand EXCEPT ![h].at = place, ![h].saw = session.status, ![h].parts = session.parts]
    BY <1>40 DEF Reload
  <2>2. At(h, place)
    <3>1. session.status \in Sights /\ session.parts \in SUBSET Pieces
      BY DEF StoresTyped, Session
    <3>2. hand \in [Hands -> Routine] /\ place \in Places
      BY Names DEF StoresTyped
    <3> QED BY <2>1, <3>1, <3>2, SeesAt
  <2> QED BY <1>40, <2>2 DEF Reload
<1>41. CASE FindExisting(h)
  BY <1>41, Names, EndsAt, GoesAt, KeepsAt DEF FindExisting, StoresTyped
<1>42. CASE CheckParts(h)
  <2>1. CASE Keeps(h, "begin", "ready") \/ Goes(h, "unlock")
    BY <1>42, <2>1, Names, GoesAt, KeepsAt DEF CheckParts, StoresTyped
  <2>2. CASE hand' = [hand EXCEPT ![h].at = "probe", ![h].tries = 0, ![h].parts = {}]
    <3>1. PICK parts \in SUBSET Pieces, n \in Nat :
             hand' = [hand EXCEPT ![h].at = "probe", ![h].tries = n, ![h].parts = parts]
      BY <2>2
    <3>2. At(h, "probe")
      BY <3>1, Names, ProbesAt DEF StoresTyped
    <3> QED BY <1>42, <3>2 DEF CheckParts
  <2> QED BY <1>42, <2>1, <2>2 DEF CheckParts
<1>43. CASE ForgetPart(h)
  <2>1. PICK place \in {"unlock", "forget"}, parts \in SUBSET hand[h].parts :
           hand' = [hand EXCEPT ![h].at = place, ![h].parts = parts]
    <3>1. PICK n \in hand[h].parts :
             hand' = [hand EXCEPT ![h].parts = @ \ {n},
                                  ![h].at = IF hand[h].parts = {n} THEN "unlock" ELSE "forget"]
      BY <1>43 DEF ForgetPart
    <3>2. PICK place \in {"unlock", "forget"} : place = IF hand[h].parts = {n} THEN "unlock" ELSE "forget"
      OBVIOUS
    <3>3. hand' = [hand EXCEPT ![h].at = place, ![h].parts = hand[h].parts \ {n}]
      BY <3>1, <3>2 DEF StoresTyped, Routine
    <3> QED BY <3>3
  <2>2. At(h, place)
    <3>1. hand \in [Hands -> Routine] /\ place \in Places /\ parts \in SUBSET Pieces
      BY Names DEF StoresTyped, Routine
    <3> QED BY <2>1, <3>1, PartsAt
  <2> QED BY <1>43, <2>1, <2>2 DEF ForgetPart
<1>44. CASE Begin(h)
  BY <1>44, Names, EndsAt, GoesAt, KeepsAt DEF Begin, StoresTyped
<1>45. CASE Assemble(h)
  BY <1>45, Names, EndsAt, GoesAt, KeepsAt DEF Assemble, StoresTyped
<1>46. CASE Verify(h)
  BY <1>46, Names, EndsAt, GoesAt, KeepsAt DEF Verify, StoresTyped
<1>47. CASE UndoBlob(h)
  BY <1>47, Names, EndsAt, GoesAt, KeepsAt DEF UndoBlob, StoresTyped
<1>48. CASE UndoParts(h)
  BY <1>48, Names, EndsAt, GoesAt, KeepsAt DEF UndoParts, StoresTyped
<1>49. CASE MarkFailed(h)
  BY <1>49, Names, EndsAt, GoesAt, KeepsAt DEF MarkFailed, StoresTyped
<1>50. CASE Persist(h)
  BY <1>50, Names, EndsAt, GoesAt, KeepsAt DEF Persist, StoresTyped
<1>51. CASE MarkCompleted(h)
  BY <1>51, Names, EndsAt, GoesAt, KeepsAt DEF MarkCompleted, StoresTyped
<1>52. CASE ClearParts(h)
  BY <1>52, Names, EndsAt, GoesAt, KeepsAt DEF ClearParts, StoresTyped
<1>53. CASE ReleaseLock(h)
  BY <1>53, Names, EndsAt, GoesAt, KeepsAt DEF ReleaseLock, StoresTyped
<1>54. CASE ReadHead(h)
  BY <1>54, Names, EndsAt, GoesAt, KeepsAt DEF ReadHead, StoresTyped
<1>55. CASE FetchTomb(h)
  <2>1. At(h, "refs") \/ At(h, "unlistOnly") \/ Ends(h)
    <3>1. CASE tomb.attempts # -1 /\ tomb.due
      <4>1. tomb.attempts \in Nat
        BY <3>1 DEF StoresTyped, Tomb
      <4>2. hand' = [hand EXCEPT ![h].at = "refs", ![h].tries = tomb.attempts]
        BY <1>55, <3>1 DEF FetchTomb
      <4> QED BY <4>1, <4>2, Names, TriesAt DEF StoresTyped
    <3>2. CASE tomb.attempts = -1
      <4>1. Goes(h, "unlistOnly")
        BY <1>55, <3>2 DEF FetchTomb, Goes
      <4> QED BY <4>1, Names, GoesAt DEF StoresTyped
    <3> QED BY <1>55, <3>1, <3>2 DEF FetchTomb, Ends
  <2> QED BY <1>55, <2>1, EndsAt DEF FetchTomb, StoresTyped
<1>56. CASE LoadExpired(h)
  BY <1>56, Names, EndsAt, GoesAt, KeepsAt DEF LoadExpired, StoresTyped
<1>57. CASE PurgeParts(h)
  BY <1>57, Names, EndsAt, GoesAt, KeepsAt DEF PurgeParts, StoresTyped
<1>58. CASE ScanParts(h)
  <2>1. PICK n \in pieces : hand' = [hand EXCEPT ![h].parts = @ \cup {n}]
    BY <1>58 DEF ScanParts
  <2>2. hand \in [Hands -> Routine] /\ hand[h].parts \cup {n} \in SUBSET Pieces /\ hand[h].at \in Places
    BY <2>1 DEF StoresTyped, Routine
  <2>3. hand' = [hand EXCEPT ![h].at = hand[h].at, ![h].parts = hand[h].parts \cup {n}]
    BY <2>1, <2>2 DEF Routine
  <2>4. At(h, hand[h].at)
    BY <2>2, <2>3, PartsAt
  <2> QED BY <1>58, <2>4 DEF ScanParts
<1>59. CASE LimitSession(h)
  BY <1>59, Names, EndsAt, GoesAt, KeepsAt DEF LimitSession, StoresTyped
<1>60. CASE RecordType(h)
  BY <1>60, Names, EndsAt, GoesAt, KeepsAt DEF RecordType, StoresTyped
<1>61. CASE ProbePart(h)
  <2>1. CASE Goes(h, "begin") \/ Goes(h, "forget")
    BY <1>61, <2>1, Names, GoesAt DEF ProbePart, StoresTyped
  <2>2. CASE hand' = [hand EXCEPT ![h].tries = hand[h].tries + 1,
                                  ![h].parts = hand[h].parts \cup ({hand[h].tries + 1} \ pieces)]
             /\ hand[h].tries + 1 \in Pieces
    <3>1. hand \in [Hands -> Routine] /\ hand[h].at \in Places /\ hand[h].tries + 1 \in Nat
      BY DEF StoresTyped, Routine
    <3>3. PICK parts \in SUBSET Pieces : parts = hand[h].parts \cup ({hand[h].tries + 1} \ pieces)
      BY <2>2 DEF StoresTyped, Routine
    <3>4. hand' = [hand EXCEPT ![h].at = hand[h].at, ![h].tries = hand[h].tries + 1, ![h].parts = parts]
      BY <2>2, <3>1, <3>3 DEF Routine
    <3>5. At(h, hand[h].at)
      BY <3>1, <3>3, <3>4, ProbesAt
    <3> QED BY <1>61, <3>5 DEF ProbePart
  <2> QED BY <1>61, <2>1, <2>2 DEF ProbePart
<1> QED BY <1>1, <1>2, <1>3, <1>4, <1>5, <1>6, <1>7, <1>8, <1>9, <1>10, <1>11, <1>12, <1>13, <1>14, <1>15, <1>16, <1>17, <1>18, <1>19, <1>20, <1>21, <1>22, <1>23, <1>24, <1>25, <1>26, <1>27, <1>28, <1>29, <1>30, <1>31, <1>32, <1>33, <1>34, <1>35, <1>36, <1>37, <1>38, <1>39, <1>40, <1>41, <1>42, <1>43, <1>44, <1>45, <1>46, <1>47, <1>48, <1>49, <1>50, <1>51, <1>52, <1>53, <1>54, <1>55, <1>56, <1>57, <1>58, <1>59, <1>60, <1>61 DEF ServeStep

\* Places between the finding that there is no row and the row; and deletions.
Undecided == {"parts", "probe", "begin", "assemble", "verify", "persist"} \cup Deleting

\* What it may write.
Marks(h) ==
    /\ doomed => doomed'
    /\ outrun \subseteq outrun'
    /\ lock' = lock \/ TakeLock(h) \/ ReleaseLock(h) \/ DropSession(h)
    /\ session'.hash = "whole" => session.hash = "whole" \/ OpenSession(h)
    /\ session'.hash \in {session.hash, "none"} \/ hand[h].at \in Locked \cup {"open", "sniff", "record"}
    /\ \/ row' = row \/ row' # "completed"
       \/ Vouched(h) /\ hand[h].at \in Trusting /\ hand'[h].at \notin Undecided /\ UNCHANGED <<blob, outrun>>
    /\ \/ blob' # "none" \/ UNCHANGED <<blob, outrun>>
       \/ Erased /\ hand[h].at \in Deleting /\ hand'[h].at \notin Trusting /\ UNCHANGED row
    /\ hand'[h].at \in Trusting => blob' # "none"
    /\ hand'[h].at \in Undecided => row' = row /\ (hand[h].at \in Undecided \/ row # "completed")

LEMMA ServeMarks ==
  ASSUME StoresTyped, NEW h \in Hands, ServeStep(h)
  PROVE  Marks(h)
<1> USE DEF Marks, At, Stands, Locked, Within, Undecided, Trusting, Deleting
<1>0. hand \in [Hands -> Routine]
  BY DEF StoresTyped
<1>1. CASE UploadWhole(h)
  BY <1>0, <1>1, Names, EndsAt, GoesAt, KeepsAt DEF UploadWhole, storeOfFiles
<1>2. CASE InsertWhole(h)
  <2>1. CASE Vouched(h) /\ Ends(h)
    BY <1>0, <1>2, <2>1, EndsAt DEF InsertWhole, Vouched
  <2>2. CASE Goes(h, "recall") /\ UNCHANGED <<row, doomed>>
    BY <1>0, <1>2, <2>2, Names, GoesAt DEF InsertWhole
  <2>3. CASE Vouched(h) /\ Goes(h, "recall")
    <3>1. hand'[h].at = "recall"
      BY <1>0, <2>3, Names, GoesAt
    <3> QED BY <1>2, <2>3, <3>1 DEF InsertWhole, Vouched
  <2> QED BY <1>2, <2>1, <2>2, <2>3 DEF InsertWhole
<1>3. CASE SignUrl(h)
  BY <1>0, <1>3, Names, EndsAt, GoesAt, KeepsAt DEF SignUrl, storeOfFiles
<1>4. CASE FindFile(h)
  BY <1>0, <1>4, Names, EndsAt, GoesAt, KeepsAt DEF FindFile, storeOfFiles
<1>5. CASE Inspect(h)
  BY <1>0, <1>5, Names, EndsAt, GoesAt, KeepsAt DEF Inspect, storeOfFiles
<1>6. CASE FinishConfirm(h)
  BY <1>0, <1>6, Names, EndsAt, GoesAt, KeepsAt DEF FinishConfirm, storeOfFiles, Vouched
<1>7. CASE RejectConfirm(h)
  BY <1>0, <1>7, Names, EndsAt, GoesAt, KeepsAt DEF RejectConfirm, storeOfFiles
<1>8. CASE ReadRow(h)
  BY <1>0, <1>8, Names, EndsAt, GoesAt, KeepsAt DEF ReadRow, storeOfFiles
<1>9. CASE Entomb(h)
  BY <1>0, <1>9, Names, EndsAt, GoesAt, KeepsAt DEF Entomb, storeOfFiles
<1>10. CASE ListTomb(h)
  BY <1>0, <1>10, Names, EndsAt, GoesAt, KeepsAt DEF ListTomb, storeOfFiles
<1>11. CASE RemoveRow(h)
  BY <1>0, <1>11, Names, EndsAt, GoesAt, KeepsAt DEF RemoveRow, storeOfFiles
<1>12. CASE Recall(h)
  BY <1>0, <1>12, ServeWalks DEF Recall, storeOfFiles, Walks, SweepPlaces
<1>13. CASE Drain(h)
  BY <1>0, <1>13, Names, EndsAt, GoesAt, KeepsAt DEF Drain, storeOfFiles
<1>14. CASE FindReferences(h)
  BY <1>0, <1>14, Names, EndsAt, GoesAt, KeepsAt DEF FindReferences, storeOfFiles, Referenced, Live
<1>15. CASE EraseBlob(h)
  BY <1>0, <1>15, Names, EndsAt, GoesAt, KeepsAt DEF EraseBlob, storeOfFiles, Erased
<1>16. CASE Unlist(h)
  BY <1>0, <1>16, Names, EndsAt, GoesAt, KeepsAt DEF Unlist, storeOfFiles
<1>17. CASE Unhash(h)
  BY <1>0, <1>17, Names, EndsAt, GoesAt, KeepsAt DEF Unhash, storeOfFiles
<1>18. CASE Defer(h)
  BY <1>0, <1>18, Names, EndsAt, GoesAt, KeepsAt DEF Defer, storeOfFiles
<1>19. CASE RecordFailure(h)
  BY <1>0, <1>19, Names, EndsAt, GoesAt, KeepsAt DEF RecordFailure, storeOfFiles
<1>20. CASE Park(h)
  BY <1>0, <1>20, Names, EndsAt, GoesAt, KeepsAt DEF Park, storeOfFiles
<1>21. CASE ExpireSessions(h)
  BY <1>0, <1>21, Names, EndsAt, GoesAt, KeepsAt DEF ExpireSessions, storeOfFiles
<1>22. CASE DropSession(h)
  BY <1>0, <1>22, Names, EndsAt, GoesAt, KeepsAt DEF DropSession, storeOfFiles, NoSession, Session, StoresTyped
<1>23. CASE DropExpiry(h)
  BY <1>0, <1>23, Names, EndsAt, GoesAt, KeepsAt DEF DropExpiry, storeOfFiles
<1>24. CASE FindStale(h)
  BY <1>0, <1>24, Names, EndsAt, GoesAt, KeepsAt DEF FindStale, storeOfFiles, Stale
<1>25. CASE DropStaleBlob(h)
  BY <1>0, <1>25, Names, EndsAt, GoesAt, KeepsAt DEF DropStaleBlob, storeOfFiles, Erased
<1>26. CASE DropStaleRow(h)
  BY <1>0, <1>26, Names, EndsAt, GoesAt, KeepsAt DEF DropStaleRow, storeOfFiles
<1>27. CASE ScanOrphans(h)
  BY <1>0, <1>27, Names, EndsAt, GoesAt, KeepsAt DEF ScanOrphans, storeOfFiles, Referenced, Live
<1>28. CASE ScrapOrphan(h)
  BY <1>0, <1>28, Names, EndsAt, GoesAt, KeepsAt DEF ScrapOrphan, storeOfFiles, Erased
<1>29. CASE OpenSession(h)
  BY <1>0, <1>29, Names, EndsAt, GoesAt, KeepsAt DEF OpenSession, storeOfFiles, NoSession, Session, StoresTyped
<1>30. CASE IndexSession(h)
  BY <1>0, <1>30, Names, EndsAt, GoesAt, KeepsAt DEF IndexSession, storeOfFiles
<1>31. CASE LoadForPart(h)
  BY <1>0, <1>31, Names, EndsAt, GoesAt, KeepsAt DEF LoadForPart, storeOfFiles
<1>32. CASE StorePart(h)
  BY <1>0, <1>32, Names, EndsAt, GoesAt, KeepsAt DEF StorePart, storeOfFiles
<1>33. CASE RecordPart(h)
  BY <1>0, <1>33, Names, EndsAt, GoesAt, KeepsAt DEF RecordPart, storeOfFiles, WriteHash
<1>34. CASE LoadForAbort(h)
  <2>1. session.status \in Sights
    BY DEF StoresTyped, Session
  <2> QED BY <1>0, <1>34, <2>1, Names, EndsAt, KeepsAt DEF LoadForAbort, storeOfFiles
<1>35. CASE DiscardParts(h)
  BY <1>0, <1>35, Names, EndsAt, GoesAt, KeepsAt DEF DiscardParts, storeOfFiles
<1>36. CASE FindLost(h)
  BY <1>0, <1>36, Names, EndsAt, GoesAt, KeepsAt DEF FindLost, storeOfFiles
<1>37. CASE ScrubBlob(h)
  BY <1>0, <1>37, Names, EndsAt, GoesAt, KeepsAt DEF ScrubBlob, storeOfFiles, Erased
<1>38. CASE LoadForComplete(h)
  BY <1>0, <1>38, Names, EndsAt, GoesAt, KeepsAt DEF LoadForComplete, storeOfFiles
<1>39. CASE TakeLock(h)
  BY <1>0, <1>39, Names, EndsAt, GoesAt, KeepsAt DEF TakeLock, storeOfFiles
<1>40. CASE Reload(h)
  <2>1. hand'[h].at \in {"exist", "unlock"}
    BY <1>0, <1>40 DEF Reload, Routine
  <2> QED BY <1>40, <2>1 DEF Reload, storeOfFiles
<1>41. CASE FindExisting(h)
  BY <1>0, <1>41, Names, EndsAt, GoesAt, KeepsAt DEF FindExisting, storeOfFiles
<1>42. CASE CheckParts(h)
  <2>1. hand'[h].at \in {"begin", "unlock", "probe"}
    BY <1>0, <1>42 DEF CheckParts, Goes, Keeps, Routine
  <2> QED BY <1>42, <2>1 DEF CheckParts, storeOfFiles
<1>43. CASE ForgetPart(h)
  <2>1. hand'[h].at \in {"unlock", "forget"}
    BY <1>0, <1>43 DEF ForgetPart, Routine
  <2>2. session'.hash = session.hash
    BY <1>43 DEF ForgetPart, Session, StoresTyped
  <2> QED BY <1>43, <2>1, <2>2 DEF ForgetPart
<1>44. CASE Begin(h)
  BY <1>0, <1>44, Names, EndsAt, GoesAt, KeepsAt DEF Begin, storeOfFiles, WriteHash
<1>45. CASE Assemble(h)
  BY <1>0, <1>45, Names, EndsAt, GoesAt, KeepsAt DEF Assemble, storeOfFiles
<1>46. CASE Verify(h)
  BY <1>0, <1>46, Names, EndsAt, GoesAt, KeepsAt DEF Verify, storeOfFiles
<1>47. CASE UndoBlob(h)
  BY <1>0, <1>47, Names, EndsAt, GoesAt, KeepsAt DEF UndoBlob, storeOfFiles, Erased
<1>48. CASE UndoParts(h)
  BY <1>0, <1>48, Names, EndsAt, GoesAt, KeepsAt DEF UndoParts, storeOfFiles
<1>49. CASE MarkFailed(h)
  BY <1>0, <1>49, Names, EndsAt, GoesAt, KeepsAt DEF MarkFailed, storeOfFiles, WriteHash
<1>50. CASE Persist(h)
  <2>1. CASE Vouched(h) /\ Goes(h, "mark")
    <3>1. hand'[h].at = "mark"
      BY <1>0, <2>1, Names, GoesAt
    <3>2. row' = "completed" /\ (doomed => doomed')
      BY <2>1 DEF Vouched
    <3>3. hand[h].at = "persist" /\ UNCHANGED <<blob, session, lock, outrun>>
      BY <1>50 DEF Persist
    <3> QED BY <2>1, <3>1, <3>2, <3>3
  <2>2. CASE Goes(h, "unlock") /\ UNCHANGED <<row, doomed>>
    BY <1>0, <1>50, <2>2, Names, GoesAt DEF Persist
  <2>3. CASE Vouched(h) /\ Goes(h, "unlock")
    <3>1. hand'[h].at = "unlock"
      BY <1>0, <2>3, Names, GoesAt
    <3>2. row' = "completed" /\ (doomed => doomed')
      BY <2>3 DEF Vouched
    <3>3. hand[h].at = "persist" /\ UNCHANGED <<blob, session, lock, outrun>>
      BY <1>50 DEF Persist
    <3> QED BY <2>3, <3>1, <3>2, <3>3
  <2> QED BY <1>50, <2>1, <2>2, <2>3 DEF Persist
<1>51. CASE MarkCompleted(h)
  BY <1>0, <1>51, Names, EndsAt, GoesAt, KeepsAt DEF MarkCompleted, storeOfFiles, WriteHash
<1>52. CASE ClearParts(h)
  BY <1>0, <1>52, Names, EndsAt, GoesAt, KeepsAt DEF ClearParts, storeOfFiles
<1>53. CASE ReleaseLock(h)
  BY <1>0, <1>53, Names, EndsAt, GoesAt, KeepsAt DEF ReleaseLock, storeOfFiles
<1>54. CASE ReadHead(h)
  BY <1>0, <1>54, Names, EndsAt, GoesAt, KeepsAt DEF ReadHead, storeOfFiles
<1>55. CASE FetchTomb(h)
  <2>1. hand'[h].at \in {"refs", "unlistOnly", "idle"}
    BY <1>0, <1>55 DEF FetchTomb, Routine, AtEase
  <2> QED BY <1>55, <2>1 DEF FetchTomb, storeOfFiles
<1>56. CASE LoadExpired(h)
  BY <1>0, <1>56, Names, EndsAt, GoesAt, KeepsAt DEF LoadExpired, storeOfFiles
<1>57. CASE PurgeParts(h)
  BY <1>0, <1>57, Names, EndsAt, GoesAt, KeepsAt DEF PurgeParts, storeOfFiles
<1>58. CASE ScanParts(h)
  <2>1. hand'[h].at = "orphans"
    BY <1>0, <1>58 DEF ScanParts, Routine
  <2> QED BY <1>58, <2>1 DEF ScanParts
<1>59. CASE LimitSession(h)
  BY <1>0, <1>59, Names, EndsAt, GoesAt, KeepsAt DEF LimitSession, storeOfFiles
<1>60. CASE RecordType(h)
  BY <1>0, <1>60, Names, EndsAt, GoesAt, KeepsAt DEF RecordType, storeOfFiles, WriteHash
<1>61. CASE ProbePart(h)
  <2>1. hand'[h].at \in {"begin", "forget", "probe"}
    BY <1>0, <1>61 DEF ProbePart, Goes, Routine
  <2> QED BY <1>61, <2>1 DEF ProbePart, storeOfFiles
<1> QED BY <1>1, <1>2, <1>3, <1>4, <1>5, <1>6, <1>7, <1>8, <1>9, <1>10, <1>11, <1>12, <1>13, <1>14, <1>15, <1>16, <1>17, <1>18, <1>19, <1>20, <1>21, <1>22, <1>23, <1>24, <1>25, <1>26, <1>27, <1>28, <1>29, <1>30, <1>31, <1>32, <1>33, <1>34, <1>35, <1>36, <1>37, <1>38, <1>39, <1>40, <1>41, <1>42, <1>43, <1>44, <1>45, <1>46, <1>47, <1>48, <1>49, <1>50, <1>51, <1>52, <1>53, <1>54, <1>55, <1>56, <1>57, <1>58, <1>59, <1>60, <1>61 DEF ServeStep

LEMMA MishapTyped ==
  ASSUME mishaps \in Nat, Mishap
  PROVE  mishaps' \in Nat
  BY DEF Mishap

LEMMA TombCounts ==
  ASSUME tomb \in Tomb, NEW n \in Nat
  PROVE  [tomb EXCEPT !.attempts = n, !.due = FALSE] \in Tomb
  BY DEF Tomb

LEMMA VouchedTyped ==
  ASSUME NEW h \in Hands, Vouched(h)
  PROVE  row' = "completed" /\ doomed' \in BOOLEAN
  BY DEF Vouched

LEMMA ServeTyped ==
  ASSUME StoresTyped, NEW h \in Hands, ServeStep(h)
  PROVE  StoresTyped'
<1> USE DEF StoresTyped, Calm, storeOfFiles
<1>0. hand' \in [Hands -> Routine]
  BY ServeWalks DEF Walks
<1>1. CASE UploadWhole(h)
  BY <1>0, <1>1 DEF UploadWhole
<1>2. CASE InsertWhole(h)
  BY <1>0, <1>2, MishapTyped, VouchedTyped DEF InsertWhole
<1>3. CASE SignUrl(h)
  BY <1>0, <1>3 DEF SignUrl
<1>4. CASE FindFile(h)
  BY <1>0, <1>4 DEF FindFile
<1>5. CASE Inspect(h)
  BY <1>0, <1>5, MishapTyped DEF Inspect
<1>6. CASE FinishConfirm(h)
  BY <1>0, <1>6, VouchedTyped DEF FinishConfirm
<1>7. CASE RejectConfirm(h)
  BY <1>0, <1>7 DEF RejectConfirm
<1>8. CASE ReadRow(h)
  BY <1>0, <1>8 DEF ReadRow
<1>9. CASE Entomb(h)
  <2>1. hand[h].tries \in Nat /\ hand[h].tries + 1 \in Nat
    BY DEF Routine
  <2>2. tomb' \in Tomb
    BY <1>9, <2>1, TombCounts DEF Entomb
  <2> QED BY <1>0, <1>9, <2>2 DEF Entomb
<1>10. CASE ListTomb(h)
  BY <1>0, <1>10 DEF ListTomb, Tomb, Routine
<1>11. CASE RemoveRow(h)
  BY <1>0, <1>11 DEF RemoveRow
<1>12. CASE Recall(h)
  BY <1>0, <1>12 DEF Recall
<1>13. CASE Drain(h)
  BY <1>0, <1>13 DEF Drain
<1>14. CASE FindReferences(h)
  BY <1>0, <1>14 DEF FindReferences
<1>15. CASE EraseBlob(h)
  BY <1>0, <1>15, MishapTyped DEF EraseBlob, Erased
<1>16. CASE Unlist(h)
  BY <1>0, <1>16 DEF Unlist, Tomb, Routine
<1>17. CASE Unhash(h)
  BY <1>0, <1>17 DEF Unhash, Tomb, Routine
<1>18. CASE Defer(h)
  BY <1>0, <1>18 DEF Defer, Tomb, Routine
<1>19. CASE RecordFailure(h)
  <2>1. hand[h].tries \in Nat /\ hand[h].tries + 1 \in Nat
    BY DEF Routine
  <2>2. tomb' \in Tomb
    BY <1>19, <2>1, TombCounts DEF RecordFailure
  <2> QED BY <1>0, <1>19, <2>2 DEF RecordFailure
<1>20. CASE Park(h)
  BY <1>0, <1>20 DEF Park, Tomb, Routine
<1>21. CASE ExpireSessions(h)
  BY <1>0, <1>21 DEF ExpireSessions
<1>22. CASE DropSession(h)
  BY <1>0, <1>22, Names DEF DropSession, NoSession, Session
<1>23. CASE DropExpiry(h)
  BY <1>0, <1>23 DEF DropExpiry
<1>24. CASE FindStale(h)
  BY <1>0, <1>24 DEF FindStale
<1>25. CASE DropStaleBlob(h)
  BY <1>0, <1>25, MishapTyped DEF DropStaleBlob, Erased
<1>26. CASE DropStaleRow(h)
  BY <1>0, <1>26 DEF DropStaleRow
<1>27. CASE ScanOrphans(h)
  BY <1>0, <1>27 DEF ScanOrphans
<1>28. CASE ScrapOrphan(h)
  BY <1>0, <1>28, MishapTyped DEF ScrapOrphan, Erased
<1>29. CASE OpenSession(h)
  BY <1>0, <1>29, Names DEF OpenSession, NoSession, Session
<1>30. CASE IndexSession(h)
  BY <1>0, <1>30 DEF IndexSession
<1>31. CASE LoadForPart(h)
  BY <1>0, <1>31, MishapTyped DEF LoadForPart, Pieces, Routine
<1>32. CASE StorePart(h)
  BY <1>0, <1>32 DEF StorePart, Pieces, Routine
<1>33. CASE RecordPart(h)
  BY <1>0, <1>33, Names DEF RecordPart, WriteHash, Session, Pieces, Routine
<1>34. CASE LoadForAbort(h)
  BY <1>0, <1>34 DEF LoadForAbort
<1>35. CASE DiscardParts(h)
  BY <1>0, <1>35, MishapTyped DEF DiscardParts, PartsGone, PartsLeft
<1>36. CASE FindLost(h)
  BY <1>0, <1>36 DEF FindLost
<1>37. CASE ScrubBlob(h)
  BY <1>0, <1>37, MishapTyped DEF ScrubBlob, Erased
<1>38. CASE LoadForComplete(h)
  BY <1>0, <1>38 DEF LoadForComplete
<1>39. CASE TakeLock(h)
  BY <1>0, <1>39 DEF TakeLock
<1>40. CASE Reload(h)
  BY <1>0, <1>40 DEF Reload, Pieces, Routine
<1>41. CASE FindExisting(h)
  BY <1>0, <1>41 DEF FindExisting, Pieces, Routine
<1>42. CASE CheckParts(h)
  BY <1>0, <1>42 DEF CheckParts, Pieces, Routine
<1>43. CASE ForgetPart(h)
  <2>1. PICK n \in Pieces : session' = [session EXCEPT !.parts = @ \ {n}]
    BY <1>43 DEF ForgetPart, Routine
  <2>2. session' \in Session
    BY <2>1 DEF Session
  <2> QED BY <1>0, <1>43, <2>2 DEF ForgetPart
<1>44. CASE Begin(h)
  BY <1>0, <1>44, Names DEF Begin, WriteHash, Session, Pieces, Routine
<1>45. CASE Assemble(h)
  BY <1>0, <1>45, MishapTyped DEF Assemble
<1>46. CASE Verify(h)
  BY <1>0, <1>46, MishapTyped DEF Verify
<1>47. CASE UndoBlob(h)
  BY <1>0, <1>47, MishapTyped DEF UndoBlob, Erased
<1>48. CASE UndoParts(h)
  BY <1>0, <1>48, MishapTyped DEF UndoParts, PartsGone, PartsLeft
<1>49. CASE MarkFailed(h)
  BY <1>0, <1>49, Names DEF MarkFailed, WriteHash, Session, Pieces, Routine
<1>50. CASE Persist(h)
  BY <1>0, <1>50, MishapTyped, VouchedTyped DEF Persist
<1>51. CASE MarkCompleted(h)
  BY <1>0, <1>51, Names DEF MarkCompleted, WriteHash, Session, Pieces, Routine
<1>52. CASE ClearParts(h)
  BY <1>0, <1>52, MishapTyped DEF ClearParts, PartsGone, PartsLeft
<1>53. CASE ReleaseLock(h)
  BY <1>0, <1>53 DEF ReleaseLock
<1>54. CASE ReadHead(h)
  BY <1>0, <1>54, MishapTyped DEF ReadHead
<1>55. CASE FetchTomb(h)
  BY <1>0, <1>55 DEF FetchTomb
<1>56. CASE LoadExpired(h)
  BY <1>0, <1>56 DEF LoadExpired
<1>57. CASE PurgeParts(h)
  BY <1>0, <1>57, MishapTyped DEF PurgeParts, PartsGone, PartsLeft
<1>58. CASE ScanParts(h)
  BY <1>0, <1>58, MishapTyped DEF ScanParts
<1>59. CASE LimitSession(h)
  BY <1>0, <1>59 DEF LimitSession
<1>60. CASE RecordType(h)
  BY <1>0, <1>60, Names DEF RecordType, WriteHash, Session
<1>61. CASE ProbePart(h)
  BY <1>0, <1>61 DEF ProbePart
<1> QED BY <1>1, <1>2, <1>3, <1>4, <1>5, <1>6, <1>7, <1>8, <1>9, <1>10, <1>11, <1>12, <1>13, <1>14, <1>15, <1>16, <1>17, <1>18, <1>19, <1>20, <1>21, <1>22, <1>23, <1>24, <1>25, <1>26, <1>27, <1>28, <1>29, <1>30, <1>31, <1>32, <1>33, <1>34, <1>35, <1>36, <1>37, <1>38, <1>39, <1>40, <1>41, <1>42, <1>43, <1>44, <1>45, <1>46, <1>47, <1>48, <1>49, <1>50, <1>51, <1>52, <1>53, <1>54, <1>55, <1>56, <1>57, <1>58, <1>59, <1>60, <1>61 DEF ServeStep

-----------------------------------------------------------------------------
(* The invariant's parts, from what a step does *)

LEMMA ServeOnRoute ==
  ASSUME OnRoute, NEW h \in Hands, Walks(h), UNCHANGED route
  PROVE  OnRoute'
<1> SUFFICES ASSUME NEW g \in Hands
             PROVE  /\ hand'[g].at \in SentWhole => route = "whole"
                    /\ hand'[g].at \in Confirming => route = "signed"
                    /\ hand'[g].at \in Completing => hand'[g].op = "complete"
                    /\ hand'[g].op = "complete" => route = "parts"
  BY DEF OnRoute, SentWhole, Confirming, Completing
<1>1. CASE g = h
  <2>1. CASE hand'[h].op = hand[h].op
    BY <1>1, <2>1 DEF OnRoute, Walks, SentWhole, Confirming, Completing
  <2>2. CASE hand'[h] = AtEase
    BY <1>1, <2>2 DEF AtEase, SentWhole, Confirming, Completing, Locked, Within
  <2> QED BY <2>1, <2>2 DEF Walks
<1>2. CASE g # h
  BY <1>2 DEF OnRoute, Walks, SentWhole, Confirming, Completing
<1> QED BY <1>1, <1>2

LEMMA ServeOneOpening ==
  ASSUME OneOpening, NEW h \in Hands, Walks(h), Marks(h), UNCHANGED asks
  PROVE  OneOpening'
<1>1. asks # 0
  BY DEF OneOpening, Walks
<1>2. ASSUME NEW f \in Hands, hand'[f].at = "open"
      PROVE  /\ session'.hash = "none"
             /\ \A g \in Hands \ {f} : hand'[g].at \notin Locked \cup {"open", "sniff", "store", "record", "lock"}
  <2>1. f # h /\ hand[f].at = "open"
    BY <1>2 DEF Walks
  <2>2. /\ session.hash = "none"
        /\ \A g \in Hands \ {f} : hand[g].at \notin Locked \cup {"open", "sniff", "store", "record", "lock"}
    BY <2>1 DEF OneOpening
  <2>3. hand[h].at \notin Locked \cup {"open", "sniff", "store", "record", "lock"}
    BY <2>1, <2>2
  <2>4. session'.hash = "none"
    BY <2>2, <2>3 DEF Marks
  <2>5. hand'[h].at \notin Locked \cup {"open", "sniff", "store", "record", "lock"}
    BY <2>2, <2>3 DEF Walks, TakeLock, Stands
  <2> QED BY <2>2, <2>4, <2>5 DEF Walks
<1> QED BY <1>1, <1>2 DEF OneOpening

LEMMA ServeApart ==
  ASSUME StoresTyped, OneOpening, Apart, NEW h \in Hands, Walks(h), Marks(h)
  PROVE  Apart'
<1> SUFFICES ASSUME ~doomed'
             PROVE  Apart'
  BY DEF Apart
<1>1. ~doomed
  BY DEF Marks
<1>2. ASSUME session'.hash = "whole", NEW f \in Hands, hand'[f].at \in Locked
      PROVE  lock' > 0 /\ \A g \in Hands \ {f} : hand'[g].at \notin Locked
  <2>1. CASE OpenSession(h)
    <3>1. hand[h].at = "open" /\ hand'[h].at \notin Locked
      BY <2>1 DEF OpenSession, Stands, Walks, Locked, Within, TakeLock, Reload
    <3> QED BY <1>2, <3>1 DEF OneOpening, Walks
  <2>2. CASE session.hash = "whole" /\ TakeLock(h)
    <3>1. hand[h].at = "lock" /\ lock' = lock + 1
      BY <2>2 DEF TakeLock, Stands
    <3>2. CASE lock = 0
      <4>1. \A g \in Hands : hand[g].at \notin Locked
        BY <1>1, <2>2, <3>2 DEF Apart
      <4> QED BY <1>2, <3>1, <3>2, <4>1 DEF Walks
    <3>3. CASE lock # 0
      <4>1. hand'[h].at \notin Locked
        BY <2>2, <3>3, EndsAt DEF TakeLock, StoresTyped, Locked, Within
      <4> QED BY <1>1, <1>2, <2>2, <3>1, <3>3, <4>1 DEF Apart, Walks, StoresTyped
    <3> QED BY <3>2, <3>3
  <2>3. CASE session.hash = "whole" /\ ReleaseLock(h)
    <3>1. hand[h].at = "unlock" /\ hand'[h].at \notin Locked
      BY <2>3, EndsAt DEF ReleaseLock, Stands, StoresTyped, Locked, Within
    <3>2. hand[h].at \in Locked
      BY <3>1 DEF Locked
    <3> QED BY <1>1, <1>2, <2>3, <3>1, <3>2 DEF Apart, Walks
  <2>4. CASE session.hash = "whole" /\ lock' = lock /\ ~TakeLock(h)
    BY <1>1, <1>2, <2>4 DEF Apart, Walks
  <2>5. ~DropSession(h)
    BY <1>2 DEF DropSession, NoSession
  <2> QED BY <1>2, <2>1, <2>2, <2>3, <2>4, <2>5 DEF Marks
<1>3. ASSUME NEW f \in Hands, hand'[f].at \in Within
      PROVE  \A g \in Hands \ {f} : hand'[g].at \notin Within
  <2>1. CASE Reload(h) /\ hand'[h].at \in Within
    <3>1. session.hash = "whole" /\ hand[h].at \in Locked
      <4>1. hand[h].at = "reload" /\ (session.hash # "whole" => hand'[h].at = "unlock")
        BY <2>1 DEF Reload, Stands, StoresTyped, Routine
      <4> QED BY <2>1, <4>1 DEF Locked, Within
    <3>2. \A g \in Hands \ {h} : hand[g].at \notin Within
      BY <1>1, <3>1 DEF Apart, Locked
    <3> QED BY <1>3, <3>2 DEF Walks
  <2>2. CASE ~(Reload(h) /\ hand'[h].at \in Within)
    BY <1>1, <1>3, <2>2 DEF Apart, Walks
  <2> QED BY <2>1, <2>2
<1> QED BY <1>2, <1>3 DEF Apart

\* Undecided, that no other routine is once a row is completed.
LEMMA OnlyUndecided ==
  ASSUME OnRoute, Apart, NEW h \in Hands, hand[h].at \in Trusting, Vouched(h), ~doomed', ~doomed
  PROVE  /\ h \notin outrun
         /\ \A g \in Hands \ {h} : hand[g].at \notin Undecided
<1>1. h \notin outrun /\ \A g \in Hands \ {h} : hand[g].at \notin Deleting
  BY DEF Vouched
<1>2. ASSUME NEW g \in Hands \ {h}, hand[g].at \in {"parts", "probe", "begin", "assemble", "verify", "persist"}
      PROVE  FALSE
  <2>1. hand[g].at \in Within /\ route = "parts"
    BY <1>2 DEF OnRoute, Locked, Within
  <2>2. hand[h].at = "persist"
    BY <2>1 DEF OnRoute, Trusting
  <2> QED BY <2>1, <2>2 DEF Apart, Within
<1> QED BY <1>1, <1>2 DEF Undecided

LEMMA ServeCertain ==
  ASSUME StoresTyped, OnRoute, Apart, Certain, FilesWhole, NEW h \in Hands, Walks(h), Marks(h)
  PROVE  Certain' /\ FilesWhole'
<1>1. ASSUME ~doomed', NEW g \in Hands, hand'[g].at \in Undecided
      PROVE  row' # "completed"
  <2>1. ~doomed
    BY <1>1 DEF Marks
  <2>2. CASE Vouched(h) /\ hand[h].at \in Trusting /\ hand'[h].at \notin Undecided
    BY <1>1, <2>1, <2>2, OnlyUndecided DEF Walks
  <2>3. CASE row' = row /\ g = h
    BY <1>1, <2>1, <2>3 DEF Marks, Certain, Undecided
  <2>4. CASE row' = row /\ g # h
    BY <1>1, <2>1, <2>4 DEF Walks, Certain, Undecided
  <2> QED BY <2>2, <2>3, <2>4 DEF Marks
<1>2. ASSUME NEW g \in Hands, hand'[g].at \in Trusting, g \notin outrun'
      PROVE  blob' # "none"
  <2>1. CASE g = h
    BY <1>2, <2>1 DEF Marks
  <2>2. CASE g # h
    <3>1. hand[g].at \in Trusting
      BY <1>2, <2>2 DEF Walks
    <3>2. CASE UNCHANGED <<blob, outrun>>
      BY <1>2, <3>1, <3>2 DEF Certain
    <3>3. ~Erased
      BY <1>2, <3>1 DEF Erased
    <3> QED BY <3>2, <3>3 DEF Marks
  <2> QED BY <2>1, <2>2
<1>3. ASSUME row' = "completed", ~doomed'
      PROVE  blob' # "none"
  <2>1. ~doomed
    BY <1>3 DEF Marks
  <2>2. CASE Vouched(h) /\ hand[h].at \in Trusting /\ UNCHANGED <<blob, outrun>>
    BY <1>3, <2>1, <2>2, OnlyUndecided DEF Certain
  <2>3. CASE row' = row
    <3>1. hand[h].at \notin Deleting /\ blob # "none"
      BY <1>3, <2>1, <2>3 DEF Certain, FilesWhole
    <3> QED BY <3>1 DEF Marks
  <2> QED BY <1>3, <2>2, <2>3 DEF Marks
<1> QED BY <1>1, <1>2, <1>3 DEF Certain, FilesWhole, Undecided

\* What SweepsClean says of the routine that sweeps.
Clean(h) ==
    /\ hand[h].at \in SweepPlaces
    /\ hand[h].at \in {"stale", "dropBlob", "dropRow", "orphans", "scrap"} => ~expiry
    /\ hand[h].at = "dropRow" => blob = "none"
    /\ IF hand[h].at = "orphans" THEN pieces \cap hand[h].parts = {} ELSE hand[h].parts = {} \/ pieces = {}
    /\ hand[h].at = "orphans" => row \in {"none", "completed"}
    /\ hand[h].at = "scrap" => row = "none" /\ pieces = {}

LEMMA SweepsOn ==
  ASSUME StoresTyped, NEW h \in Hands, Sweeping(h), hand[h].op = "sweep", age = "old", Clean(h),
         mishaps' = mishaps
  PROVE  \/ Clean(h)' /\ hand'[h].op = "sweep"
         \/ /\ hand'[h] = AtEase
            /\ row' \in {"none", "completed"} /\ (blob' # "none" => row' = "completed")
            /\ pieces' = {} /\ ~expiry'
<1>1. ~Mishap
  BY DEF Mishap, StoresTyped
<1> USE <1>1, GoesAt, GoesKeeps, EndsAt, Names DEF At, Stands, Clean, SweepPlaces, storeOfFiles
<1>2. hand \in [Hands -> Routine]
  BY DEF StoresTyped
<1>3. CASE ExpireSessions(h)
  BY <1>2, <1>3 DEF ExpireSessions
<1>4. CASE LoadExpired(h)
  BY <1>2, <1>4 DEF LoadExpired
<1>5. CASE PurgeParts(h)
  BY <1>2, <1>5 DEF PurgeParts, PartsGone, PartsLeft
<1>6. CASE DropSession(h)
  BY <1>2, <1>6 DEF DropSession
<1>7. CASE DropExpiry(h)
  BY <1>2, <1>7 DEF DropExpiry
<1>8. CASE FindStale(h)
  BY <1>2, <1>8 DEF FindStale, Stale, StoresTyped
<1>9. CASE DropStaleBlob(h)
  BY <1>2, <1>9 DEF DropStaleBlob, Erased
<1>10. CASE DropStaleRow(h)
  BY <1>2, <1>10 DEF DropStaleRow
<1>11. CASE ScanParts(h)
  <2>1. PICK n : /\ hand' = [hand EXCEPT ![h].parts = @ \cup {n}]
                 /\ pieces' = pieces \ {n}
    BY <1>11 DEF ScanParts
  <2>2. /\ hand'[h].at = "orphans" /\ hand'[h].op = hand[h].op
        /\ hand'[h].parts = hand[h].parts \cup {n}
    BY <1>2, <1>11, <2>1 DEF ScanParts, Routine
  <2> QED BY <1>11, <2>1, <2>2 DEF ScanParts
<1>12. CASE ScanOrphans(h)
  BY <1>2, <1>12 DEF ScanOrphans, Referenced, Live, StoresTyped
<1>13. CASE ScrapOrphan(h)
  BY <1>2, <1>13 DEF ScrapOrphan, Erased
<1> QED BY <1>3, <1>4, <1>5, <1>6, <1>7, <1>8, <1>9, <1>10, <1>11, <1>12, <1>13 DEF Sweeping

LEMMA ServeSwept ==
  ASSUME FilesTypeOK, SweepsClean, NEW h \in Hands, Walks(h), Serves(h)
  PROVE  SweepsClean' /\ FilesSwept'
<1>1. CASE swept' = "no"
  BY <1>1 DEF SweepsClean, FilesSwept
<1>2. CASE swept' # "no"
  <2>1. /\ hand[h].op = "sweep" /\ swept = "on" /\ mishaps' = mishaps
        /\ swept' = IF hand'[h] = AtEase THEN "done" ELSE "on"
        /\ age' = age
    BY <1>2 DEF Serves
  <2>2. age = "old" /\ Clean(h) /\ \A g \in Hands \ {h} : hand[g].at = "idle"
    <3>1. PICK f \in Hands : age = "old" /\ Clean(f) /\ \A g \in Hands \ {f} : hand[g].at = "idle"
      BY <2>1 DEF SweepsClean, Clean
    <3>2. f = h
      BY <3>1 DEF Walks
    <3> QED BY <3>1, <3>2
  <2>3. Sweeping(h)
    BY <2>2 DEF Walks, Clean
  <2>4. \A g \in Hands \ {h} : hand'[g].at = "idle"
    BY <2>2 DEF Walks
  <2>5. CASE Clean(h)' /\ hand'[h].op = "sweep"
    <3>1. hand'[h] # AtEase
      BY <2>5 DEF AtEase
    <3> QED BY <2>1, <2>2, <2>4, <2>5, <3>1 DEF SweepsClean, FilesSwept, Clean
  <2>6. CASE /\ hand'[h] = AtEase
             /\ row' \in {"none", "completed"} /\ (blob' # "none" => row' = "completed")
             /\ pieces' = {} /\ ~expiry'
    BY <2>1, <2>6 DEF SweepsClean, FilesSwept
  <2> QED BY <2>1, <2>2, <2>3, <2>5, <2>6, SweepsOn DEF FilesTypeOK
<1> QED BY <1>1, <1>2

-----------------------------------------------------------------------------

LEMMA ServeInv ==
  ASSUME Inv, NEW h \in Hands, Serves(h)
  PROVE  Inv'
<1> USE DEF Inv
<1>1. StoresTyped /\ ServeStep(h) /\ UNCHANGED <<age, route, asks>>
  BY DEF Serves, FilesTypeOK
<1>2. Walks(h) /\ Marks(h) /\ StoresTyped'
  BY <1>1, ServeWalks, ServeMarks, ServeTyped
<1>3. FilesTypeOK'
  BY <1>1, <1>2, FilesAssumption DEF FilesTypeOK, Serves
<1>4. OnRoute' /\ OneOpening' /\ Apart'
  BY <1>1, <1>2, ServeOnRoute, ServeOneOpening, ServeApart
<1>5. Certain' /\ FilesWhole'
  BY <1>1, <1>2, ServeCertain
<1>6. SweepsClean' /\ FilesSwept'
  BY <1>2, ServeSwept
<1> QED BY <1>3, <1>4, <1>5, <1>6

LEMMA CrashInv ==
  ASSUME Inv, NEW h \in Hands, Crashes(h)
  PROVE  Inv'
<1>1. /\ hand' \in [Hands -> Routine] /\ hand'[h].at = "idle" /\ hand'[h].op = "none"
      /\ \A g \in Hands \ {h} : hand'[g] = hand[g]
  BY EndsAt DEF Inv, FilesTypeOK, StoresTyped, Crashes
<1> USE <1>1 DEF Inv, Crashes, storeOfFiles
<1>2. FilesTypeOK'
  BY MishapTyped DEF FilesTypeOK, StoresTyped
<1>3. OnRoute' /\ OneOpening'
  BY DEF OnRoute, OneOpening, Locked, Within, Stands
<1>4. Apart' /\ Certain'
  BY DEF Apart, Certain, Locked, Within, Deleting, Trusting
<1> QED BY <1>2, <1>3, <1>4 DEF FilesWhole, SweepsClean, FilesSwept

\* Where a request begins, and who may make it.
LEMMA TakesUp ==
  ASSUME StoresTyped, route \in Routes, NEW h \in Hands, NEW op \in Ops \ {"none"}, NEW n \in Pieces \cup {0},
         op = "part" => n \in Pieces, TakeUp(h, op, n)
  PROVE  /\ hand' \in [Hands -> Routine] /\ \A g \in Hands \ {h} : hand'[g] = hand[g]
         /\ hand'[h].op = op
         /\ hand'[h].at \in {"upload", "sign", "open", "find", "look", "drain", "sweep", "loadAbort",
                           "load", "loadPart"}
         /\ hand'[h].at = "upload" => route = "whole"
         /\ hand'[h].at = "find" => route = "signed"
         /\ op = "complete" => route = "parts"
         /\ hand'[h].at = "load" => op = "complete"
         /\ hand'[h].at = "open" => asks = 0
         /\ op = "sweep" => hand'[h].at = "sweep" /\ hand'[h].parts = {}
<1>1. Begins(op) \in Places
  BY Names DEF Begins, Ops
<1>2. [AtEase EXCEPT !.op = op, !.at = Begins(op), !.parts = IF op = "part" THEN {n} ELSE {}] \in Routine
  BY <1>1, Names DEF AtEase, Routine
<1>3. /\ hand' \in [Hands -> Routine] /\ \A g \in Hands \ {h} : hand'[g] = hand[g]
      /\ hand'[h].op = op /\ hand'[h].at = Begins(op)
      /\ op = "sweep" => hand'[h].parts = {}
  BY <1>2 DEF TakeUp, StoresTyped, AtEase
<1>4. op \in Offered
  BY DEF TakeUp
<1>5. op \in {"post", "sign", "create"} => asks = 0
  BY <1>4 DEF Offered
<1>6. /\ op = "post" => route = "whole"
      /\ op = "confirm" => route = "signed"
      /\ op = "complete" => route = "parts"
  BY <1>4, FilesAssumption DEF Offered
<1> QED BY <1>3, <1>5, <1>6 DEF Begins, Ops

LEMMA TakeUpInv ==
  ASSUME Inv, NEW h \in Hands, NEW op \in Ops \ {"none"}, NEW n \in Pieces \cup {0},
         op = "part" => n \in Pieces, TakeUp(h, op, n)
  PROVE  Inv'
<1>1. StoresTyped /\ route \in Routes
  BY DEF Inv, FilesTypeOK
<1>2. /\ hand' \in [Hands -> Routine] /\ \A g \in Hands \ {h} : hand'[g] = hand[g]
      /\ hand'[h].op = op
      /\ hand'[h].at \in {"upload", "sign", "open", "find", "look", "drain", "sweep", "loadAbort",
                        "load", "loadPart"}
      /\ hand'[h].at = "upload" => route = "whole"
      /\ hand'[h].at = "find" => route = "signed"
      /\ op = "complete" => route = "parts"
      /\ hand'[h].at = "load" => op = "complete"
      /\ hand'[h].at = "open" => asks = 0
      /\ op = "sweep" => hand'[h].at = "sweep" /\ hand'[h].parts = {}
  BY <1>1, TakesUp
<1>3. /\ UNCHANGED <<storeOfFiles, age, route, puts, mishaps, doomed>>
      /\ asks' = asks + 1 /\ outrun' = outrun \ {h} /\ hand[h].at = "idle"
      /\ swept' = IF op = "sweep" /\ age = "old" /\ \A g \in Hands : Stands(g, "idle") THEN "on" ELSE "no"
  BY DEF TakeUp, Stands
<1> USE <1>2, <1>3 DEF Inv, storeOfFiles
<1>4. FilesTypeOK'
  BY DEF FilesTypeOK, StoresTyped
<1>5. OnRoute'
  BY DEF OnRoute, Locked, Within
<1>6. OneOpening'
  <2>1. asks' # 0
    BY DEF FilesTypeOK
  <2>2. hand'[h].at = "open" => session.hash = "none"
    BY DEF OneOpening
  <2> QED BY <2>1, <2>2 DEF OneOpening, Locked, Within
<1>7. Apart' /\ Certain'
  BY DEF Apart, Certain, Locked, Within, Deleting, Trusting
<1>8. SweepsClean'
  BY DEF SweepsClean, SweepPlaces, Stands
<1> QED BY <1>4, <1>5, <1>6, <1>7, <1>8 DEF FilesWhole, FilesSwept

LEMMA RestInv ==
  ASSUME Inv, (\E content \in {"good", "bad"} : ClientPuts(content)) \/ LockLapses \/ TombDue \/ SessionsExpire \/ DayPasses
  PROVE  Inv'
<1> USE DEF Inv, storeOfFiles, budgets
<1>1. ASSUME NEW content \in {"good", "bad"}, ClientPuts(content)
      PROVE  Inv'
  <2>1. FilesTypeOK'
    BY <1>1 DEF ClientPuts, FilesTypeOK, StoresTyped
  <2> QED BY <1>1, <2>1 DEF ClientPuts, OnRoute, OneOpening, Apart, Certain, FilesWhole, SweepsClean, FilesSwept
<1>2. CASE LockLapses
  <2>1. FilesTypeOK'
    BY <1>2, MishapTyped DEF LockLapses, FilesTypeOK, StoresTyped
  <2>2. Apart'
    BY <1>2 DEF LockLapses, OnRoute, Apart, Locked, Within
  <2> QED BY <1>2, <2>1, <2>2 DEF LockLapses, OnRoute, OneOpening, Certain, FilesWhole, SweepsClean, FilesSwept
<1>3. CASE TombDue
  <2>1. FilesTypeOK'
    BY <1>3 DEF TombDue, FilesTypeOK, StoresTyped, Tomb
  <2> QED BY <1>3, <2>1 DEF TombDue, OnRoute, OneOpening, Apart, Certain, FilesWhole, SweepsClean, FilesSwept
<1>4. CASE DayPasses
  <2>1. FilesTypeOK'
    BY <1>4 DEF DayPasses, FilesTypeOK, StoresTyped
  <2> QED BY <1>4, <2>1 DEF DayPasses, OnRoute, OneOpening, Apart, Certain, FilesWhole, SweepsClean, FilesSwept
<1>5. CASE SessionsExpire
  <2>1. FilesTypeOK'
    BY <1>5 DEF SessionsExpire, FilesTypeOK, StoresTyped
  <2> QED BY <1>5, <2>1 DEF SessionsExpire, OnRoute, OneOpening, Apart, Certain, FilesWhole, SweepsClean, FilesSwept
<1> QED BY <1>1, <1>2, <1>3, <1>4, <1>5

LEMMA FilesStep == Inv /\ [FilesNext]_filesVars => Inv'
<1> SUFFICES ASSUME Inv, [FilesNext]_filesVars PROVE Inv'
  OBVIOUS
<1>1. CASE \E h \in Hands : Serves(h) \/ Crashes(h)
  BY <1>1, ServeInv, CrashInv
<1>2. ASSUME NEW h \in Hands, NEW op \in {"post", "sign", "create", "confirm", "delete", "drain",
                                      "sweep", "abort", "complete"}, TakeUp(h, op, 0)
      PROVE  Inv'
  BY <1>2, TakeUpInv DEF Ops
<1>3. ASSUME NEW h \in Hands, NEW n \in Pieces, TakeUp(h, "part", n)
      PROVE  Inv'
  BY <1>3, TakeUpInv DEF Ops
<1>4. CASE (\E content \in {"good", "bad"} : ClientPuts(content)) \/ LockLapses \/ TombDue \/ SessionsExpire \/ DayPasses
  BY <1>4, RestInv
<1>5. CASE UNCHANGED filesVars
  BY <1>5 DEF filesVars, storeOfFiles, budgets, Inv, FilesTypeOK, StoresTyped, OnRoute, OneOpening,
              Apart, Certain, FilesWhole, SweepsClean, FilesSwept
<1> QED BY <1>1, <1>2, <1>3, <1>4, <1>5 DEF FilesNext

\* "No ordering deletes a still-referenced blob" (contracts/storage.md:59), whoever deletes, sweeps,
\* drains, aborts or completes, and wherever they crash: settleBlobDeletion, sweepOrphanedBlobs,
\* abortSession and failSession (cleanup.ts, resumable.ts).
THEOREM ReferencedStays == FilesSpec => []FilesWhole
<1>1. Inv => FilesWhole
  BY DEF Inv
<1> QED BY <1>1, InvInit, FilesStep, PTL DEF FilesSpec

\* sweepOrphanedBlobs (cleanup.ts), alone and undisturbed, leaves nothing that nobody needs.
THEOREM SweepsAll == FilesSpec => []FilesSwept
<1>1. Inv => FilesSwept
  BY DEF Inv
<1> QED BY <1>1, InvInit, FilesStep, PTL DEF FilesSpec
=============================================================================
