------------------------------ MODULE TrafficLog ------------------------------
(***************************************************************************)
(* The traffic log store (src/src/logging/traffic-log.ts): entries kept in *)
(* memory under caps on their number and on their bytes, bodies in files   *)
(* written and deleted by one chain of promises, and the admin API that    *)
(* pages through the entries, reads bodies and clears the log              *)
(* (src/src/admin/logs-api.ts), beside the retention sweep                 *)
(* (src/src/retention.ts).                                                 *)
(*                                                                         *)
(* Methods run to completion on the event loop; file operations and        *)
(* readBody() are asynchronous.  Masking, previews and event subscribers   *)
(* are left out; an id is its sequence number, which makes it unique.      *)
(***************************************************************************)
EXTENDS Integers, SequencesExt

CONSTANTS
  Drafts,       \* what is logged; see DraftConstants
  Kinds,        \* the bodies an exchange may have
  MaxEntries, MaxBytes, RetentionMs, PageSize,
  Readers,      \* concurrent readBody() calls
  MaxAdds,      \* bound on the entries ever added
  MaxNow,       \* bound on the clock
  Nil

(* shown: the filter of the page walk accepts the entry. *)
ASSUME LogConstants ==
  /\ Drafts \subseteq [kinds : SUBSET Kinds, bytes : Nat, shown : BOOLEAN]
  /\ \A d \in Drafts : d.kinds = {} => d.bytes = 0
  /\ {MaxEntries, MaxBytes, RetentionMs, PageSize, MaxAdds, MaxNow} \subseteq Nat
  /\ PageSize > 0
  /\ IsFiniteSet(Kinds)
  /\ Nil \notin Nat

VARIABLES
  entries,        \* oldest added first
  totalBodyBytes,
  seq,
  now,
  pending,        \* file operations queued on the promise chain
  directory,      \* the body directory: "unknown", "ready" or "unusable"
  files,          \* the bodies on disk
  failed,         \* history: the bodies an operation on whose file failed
  reading,        \* reading[r]: what r reads and how many operations it awaits
  walk            \* a client paging through the log with nextCursor

logVars == <<entries, totalBodyBytes, seq>>
vars == <<logVars, now, pending, directory, files, failed, reading, walk>>

Ids == {entries[i].id : i \in DOMAIN entries}
EntryOf(id) == CHOOSE e \in ToSet(entries) : e.id = id

Body(id, kind) == [id |-> id, kind |-> kind]
Bodies(e) == {Body(e.id, kind) : kind \in e.kinds}
StoredBodies == UNION {Bodies(e) : e \in ToSet(entries)}

BytesOf(log) ==
  LET sum[n \in 0 .. Len(log)] == IF n = 0 THEN 0 ELSE sum[n - 1] + log[n].bytes
  IN  sum[Len(log)]

(* One operation of the chain for each body of each entry of log. *)
OnBodies(op, log) ==
  LET Ops(e) == SetToSeq({[op |-> op, body |-> b] : b \in Bodies(e)})
  IN  FlattenSeq([i \in DOMAIN log |-> Ops(log[i])])

NotReading == [body |-> Nil, ahead |-> 0]
NotWalking == [on |-> FALSE, cursor |-> Nil, listed |-> {}, owed |-> {}]

Init ==
  /\ entries = <<>> /\ totalBodyBytes = 0 /\ seq = 0
  /\ now = 0
  /\ pending = <<>> /\ directory = "unknown" /\ files = {} /\ failed = {}
  /\ reading = [r \in Readers |-> NotReading]
  /\ walk = NotWalking

----------------------------------------------------------------------------
(* Entries come and go.  What is removed is owed to no walk any more.        *)

Prefix(log, n) == SubSeq(log, 1, n)
Rest(log, n) == SubSeq(log, n + 1, Len(log))

(* removeStored() of the n oldest entries of log, bytes being in total. *)
DropKeepingFiles(log, bytes, n, queue) ==
  /\ entries' = Rest(log, n)
  /\ totalBodyBytes' = bytes - BytesOf(Prefix(log, n))
  /\ pending' = queue
  /\ walk' = [walk EXCEPT !.owed = @ \ {log[i].id : i \in 1 .. n}]

DropOldest(log, bytes, n, queue) ==
  /\ entries' = Rest(log, n)
  /\ totalBodyBytes' = bytes - BytesOf(Prefix(log, n))
  /\ pending' = queue \o OnBodies("unlink", Prefix(log, n))
  /\ walk' = [walk EXCEPT !.owed = @ \ {log[i].id : i \in 1 .. n}]

(* A cap test one too lax. *)
WithinCapsLax(log, bytes, n) ==
  /\ Len(log) - n <= MaxEntries
  /\ bytes - BytesOf(Prefix(log, n)) <= MaxBytes + 1 \/ n = Len(log)

(* enforceCaps(): the oldest go until both caps hold, or none is left. *)
WithinCaps(log, bytes, n) ==
  /\ Len(log) - n <= MaxEntries
  /\ bytes - BytesOf(Prefix(log, n)) <= MaxBytes \/ n = Len(log)

EnforceCaps(log, bytes, queue) ==
  \E n \in 0 .. Len(log) :
    /\ WithinCaps(log, bytes, n)
    /\ \A m \in 0 .. n - 1 : ~WithinCaps(log, bytes, m)
    /\ DropOldest(log, bytes, n, queue)

(* add(): an exchange is logged when it ends, so startedAt may lie before    *)
(* that of entries added earlier.  Its writes precede the evictions' unlinks.*)
AddUntracked(draft, startedAt) ==
  LET e == [id |-> seq + 1, startedAt |-> startedAt, kinds |-> draft.kinds,
            bytes |-> draft.bytes, shown |-> draft.shown]
  IN /\ seq < MaxAdds
     /\ startedAt \in 0 .. now
     /\ seq' = seq + 1
     /\ EnforceCaps(Append(entries, e), totalBodyBytes, pending \o OnBodies("write", <<e>>))
     /\ UNCHANGED <<now, directory, files, failed, reading>>

Add(draft, startedAt) ==
  LET e == [id |-> seq + 1, startedAt |-> startedAt, kinds |-> draft.kinds,
            bytes |-> draft.bytes, shown |-> draft.shown]
  IN /\ seq < MaxAdds
     /\ startedAt \in 0 .. now
     /\ seq' = seq + 1
     /\ EnforceCaps(Append(entries, e), totalBodyBytes + draft.bytes,
                    pending \o OnBodies("write", <<e>>))
     /\ UNCHANGED <<now, directory, files, failed, reading>>

(* applyRetention(): it stops at the first entry that is young enough. *)
Expired(e) == e.startedAt < now - RetentionMs

ApplyRetention ==
  /\ \E n \in 1 .. Len(entries) :
       /\ \A i \in 1 .. n : Expired(entries[i])
       /\ n < Len(entries) => ~Expired(entries[n + 1])
       /\ DropOldest(entries, totalBodyBytes, n, pending)
  /\ UNCHANGED <<seq, now, directory, files, failed, reading>>

(* clear() *)
Clear ==
  /\ DropOldest(entries, totalBodyBytes, Len(entries), pending)
  /\ UNCHANGED <<seq, now, directory, files, failed, reading>>

Tick ==
  /\ now < MaxNow
  /\ now' = now + 1
  /\ UNCHANGED <<logVars, pending, directory, files, failed, reading, walk>>

----------------------------------------------------------------------------
(* The promise chain: one operation at a time, in the order queued.  The     *)
(* first write creates the directory, once; if that fails, none is written.  *)

NextOperation ==
  /\ pending # <<>>
  /\ pending' = Tail(pending)
  /\ reading' = [r \in Readers |-> [reading[r] EXCEPT !.ahead = IF @ > 0 THEN @ - 1 ELSE 0]]
  /\ UNCHANGED <<logVars, now, walk>>

Write ==
  /\ NextOperation
  /\ Head(pending).op = "write"
  /\ IF directory = "unknown"
     THEN directory' \in {"ready", "unusable"}
     ELSE directory' = directory
  /\ \/ /\ directory' = "ready"
        /\ files' = files \cup {Head(pending).body}
        /\ failed' = failed
     \/ /\ files' = files
        /\ failed' = failed \cup {Head(pending).body}

Unlink ==
  /\ NextOperation
  /\ Head(pending).op = "unlink"
  /\ UNCHANGED directory
  /\ \/ files' = files \ {Head(pending).body} /\ failed' = failed
     \/ files' = files /\ failed' = failed \cup {Head(pending).body}

(* readBody(): it awaits the operations queued at the time of the call, then *)
(* reads the file, whatever has become of the entry.                         *)
StartReadUnflushed(r, body) ==
  /\ reading[r] = NotReading
  /\ body \in StoredBodies
  /\ reading' = [reading EXCEPT ![r] = [body |-> body, ahead |-> 0]]
  /\ UNCHANGED <<logVars, now, pending, directory, files, failed, walk>>

StartRead(r, body) ==
  /\ reading[r] = NotReading
  /\ body \in StoredBodies
  /\ reading' = [reading EXCEPT ![r] = [body |-> body, ahead |-> Len(pending)]]
  /\ UNCHANGED <<logVars, now, pending, directory, files, failed, walk>>

FinishRead(r) ==
  /\ reading[r].body # Nil
  /\ reading[r].ahead = 0
  /\ reading' = [reading EXCEPT ![r] = NotReading]
  /\ UNCHANGED <<logVars, now, pending, directory, files, failed, walk>>

Finds(r) == reading[r].body \in files

----------------------------------------------------------------------------
(* list(), newest first, by a client that follows nextCursor.                *)

(* The entries behind the cursor, none if the cursor is gone. *)
Behind(cursor) ==
  IF cursor = Nil THEN Len(entries)
  ELSE IF cursor \in Ids
       THEN (CHOOSE i \in DOMAIN entries : entries[i].id = cursor) - 1
       ELSE 0

Candidates(cursor) == {i \in 1 .. Behind(cursor) : entries[i].shown}

PageOf(cursor) ==
  {i \in Candidates(cursor) : Cardinality({j \in Candidates(cursor) : j > i}) < PageSize}

(* The cursor named by the first entry left out instead of the last included. *)
NextCursorOff(page, candidates) ==
  IF page = candidates THEN Nil
  ELSE entries[CHOOSE i \in candidates \ page :
                 \A j \in candidates \ page : j <= i].id

NextCursor(page, candidates) ==
  IF page = candidates THEN Nil
  ELSE entries[CHOOSE i \in page : \A j \in page : i <= j].id

StartWalk ==
  /\ ~walk.on
  /\ walk' = [on |-> TRUE, cursor |-> Nil, listed |-> {},
              owed |-> {e.id : e \in {x \in ToSet(entries) : x.shown}}]
  /\ UNCHANGED <<logVars, now, pending, directory, files, failed, reading>>

Listed(page) == {entries[i].id : i \in page}

List ==
  LET page == PageOf(walk.cursor)
      next == NextCursor(page, Candidates(walk.cursor))
  IN /\ walk.on
     /\ walk' = [walk EXCEPT !.on = next # Nil, !.cursor = next,
                             !.listed = @ \cup Listed(page), !.owed = @ \ Listed(page)]
     /\ UNCHANGED <<logVars, now, pending, directory, files, failed, reading>>

----------------------------------------------------------------------------
Next ==
  \/ \E draft \in Drafts, startedAt \in 0 .. now : Add(draft, startedAt)
  \/ ApplyRetention
  \/ Clear
  \/ Tick
  \/ Write
  \/ Unlink
  \/ \E r \in Readers :
       \/ \E body \in StoredBodies : StartRead(r, body)
       \/ FinishRead(r)
  \/ StartWalk
  \/ List

Spec == Init /\ [][Next]_vars

----------------------------------------------------------------------------
(* Whatever the log's state names is an exchange logged so far. *)
AnEntry == [id : 1 .. seq, startedAt : 0 .. now, kinds : SUBSET Kinds,
            bytes : Nat, shown : BOOLEAN]
ABody == [id : 1 .. seq, kind : Kinds]
Operation == [op : {"write", "unlink"}, body : ABody]

(* Types of the log's state. *)
TypeOK ==
  /\ seq \in 0 .. MaxAdds /\ now \in 0 .. MaxNow
  /\ entries \in Seq(AnEntry)
  /\ totalBodyBytes \in Nat
  /\ pending \in Seq(Operation)
  /\ directory \in {"unknown", "ready", "unusable"}
  /\ files \subseteq ABody /\ failed \subseteq ABody
  /\ reading \in [Readers -> [body : ABody \cup {Nil}, ahead : Nat]]
  /\ walk \in [on : BOOLEAN, cursor : 1 .. seq \cup {Nil},
               listed : SUBSET (1 .. seq), owed : SUBSET (1 .. seq)]

(* The caps hold after every add, retention sweep and clear, and the running *)
(* byte count they are decided on is the size of the bodies really stored.   *)
CapsHold ==
  /\ Len(entries) <= MaxEntries
  /\ totalBodyBytes = BytesOf(entries)
  /\ totalBodyBytes <= MaxBytes

(* Removal is consistent (spec 4.9.4): once the queued operations are done,  *)
(* no body outlives its entry, unless deleting its file failed.  An entry    *)
(* evicted while its own body is still being written is no exception.        *)
NoBodyOutlivesItsEntry ==
  pending = <<>> => files \subseteq StoredBodies \cup failed

(* A body that is asked for is found, however far its write is behind in the *)
(* chain, unless its entry was removed meanwhile or the write failed.        *)
StoredBodyIsFound ==
  [][\A r \in Readers :
       FinishRead(r) => Finds(r) \/ reading[r].body \notin StoredBodies \ failed]_vars

(* Following nextCursor while entries are added and removed lists no entry   *)
(* twice and, by its end, every entry that was there from its start and has  *)
(* not been removed - even if the entry the cursor names has been.           *)
WalkIsComplete ==
  [][List => /\ Listed(PageOf(walk.cursor)) \cap walk.listed = {}
             /\ ~walk'.on => walk'.owed = {}]_vars

(* applyRetention() "drops entries older than retentionMs". *)
SweepDropsAllExpired ==
  [][ApplyRetention => \A i \in DOMAIN entries' : ~Expired(entries'[i])]_vars

=============================================================================
