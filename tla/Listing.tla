------------------------------- MODULE Listing -------------------------------
(***************************************************************************)
(* ListObjects and DeleteObjects (handlers/buckets.rs, handlers/objects.rs, *)
(* engine.rs, local_fs.rs).  A client reads a bucket page by page.  For a   *)
(* page the engine walks every disk of every set, merges the walks of a set *)
(* by quorum and the sets by key; the handler sorts, rolls keys up against  *)
(* the delimiter and returns the last name as the cursor of the next page.  *)
(* Meanwhile PUTs land disk by disk and a batch delete removes keys drive   *)
(* by drive.                                                                *)
(*                                                                         *)
(* A key is a sequence of characters, a character its place in byte order:  *)
(* the order of keys and directories is what the module is about.  A disk   *)
(* maps the keys it holds to the write that made its record (the fields     *)
(* vote_fileinfo compares).  The walks of a page are one step: they read    *)
(* disks that change independently, so the step sees every mixture the      *)
(* parallel walks could see.                                                *)
(***************************************************************************)
EXTENDS Naturals, Sequences, FiniteSets, SequencesExt

CONSTANTS
  SLASH,       \* the code of "/"
  ListSets,    \* the erasure sets
  SetDisks,    \* the disks of one set (set_size)
  Place(_),    \* set_index_for: the set of a key
  ListJob,     \* buckets and requests: [keys, churn, drop, prefix, delim, max]
  ListFaults   \* pages or drives that may fail in one behaviour

VARIABLES
  ljob,        \* the job, chosen at the start
  held,        \* set -> disk -> key -> the write of its record
  walks,       \* set -> disk -> its walk, for the disks that answered
  sets,        \* set -> the merged walks of its disks
  cursor,      \* the cursor of the next page, <<>> for none
  listed,      \* the names returned, page after page
  lphase,      \* "paging", "walked", "merged" or "done"
  agreed,      \* in every page a quorum of the walks of each set was the same
  batch,       \* set -> the drives the batch delete has not reached yet
  dropped,     \* key -> the answers of its drives to the batch delete
  verdict,     \* key -> the result of the batch delete
  lfaults

listVars == <<ljob, held, walks, sets, cursor, listed, lphase, agreed, batch, dropped, verdict, lfaults>>

------------------------------------------------------------------------------
\* Byte order on keys.
Less(a, b) ==
  \/ IsStrictPrefix(a, b)
  \/ \E i \in 1 .. Len(a) :
       /\ i <= Len(b)
       /\ a[i] < b[i]
       /\ SubSeq(a, 1, i - 1) = SubSeq(b, 1, i - 1)

Sorted(S) == [i \in 1 .. Cardinality(S) |->
                CHOOSE x \in S : Cardinality({y \in S : Less(y, x)}) = i - 1]

Least(S) == CHOOSE x \in S : \A y \in S : ~ Less(y, x)

\* list_dir: the children, as paths from the bucket, of directory dir.
Under(dir) == IF dir = <<>> THEN <<>> ELSE Append(dir, SLASH)

Children(ks, dir) ==
  LET base == Under(dir)
      Ends(k) == {i \in Len(base) + 1 .. Len(k) : k[i] = SLASH}
      Child(k) == IF Ends(k) = {} THEN k
                  ELSE SubSeq(k, 1, (CHOOSE i \in Ends(k) : \A j \in Ends(k) : i <= j) - 1)
  IN {Child(k) : k \in {x \in ks : IsStrictPrefix(base, x)}}

\* The two filters of the walk: a child wholly before the cursor, and a child
\* that can neither match nor lead to the prefix.
Skips(q, child) ==
  \/ /\ q.after # <<>>
     /\ Less(child, q.after)
     /\ ~ IsPrefix(Append(child, SLASH), q.after)
     /\ q.after # child
  \/ /\ q.prefix # <<>>
     /\ ~ IsPrefix(q.prefix, child)
     /\ ~ IsPrefix(Append(child, SLASH), q.prefix)

\* Faulty variant of Takes: the cursor itself is listed again.
TakesAgain(q, key) == IsPrefix(q.prefix, key) /\ (q.after # <<>> => ~ Less(key, q.after))

Takes(q, key) == IsPrefix(q.prefix, key) /\ (q.after # <<>> => Less(q.after, key))

\* walk_dir_local_inner: depth first, entries in order; a child with an xl.meta
\* is an object and is not entered; the walk stops at the cap (0: none).
RECURSIVE WalkDir(_, _, _, _)
WalkDir(ks, todo, q, out) ==
  IF todo = <<>> \/ (q.cap > 0 /\ Len(out) >= q.cap) THEN out
  ELSE LET child == Head(todo)
           next == IF Skips(q, child) THEN out
                   ELSE IF child \in ks THEN (IF Takes(q, child) THEN Append(out, child) ELSE out)
                   ELSE WalkDir(ks, Sorted(Children(ks, child)), q, out)
       IN WalkDir(ks, Tail(todo), q, next)

\* walk_dir: the records of one disk, as <<key, write>>.
Walk(disk, q) ==
  LET names == WalkDir(DOMAIN disk, Sorted(Children(DOMAIN disk, <<>>)), q, <<>>)
  IN [i \in 1 .. Len(names) |-> <<names[i], disk[names[i]]>>]

\* vote_fileinfo: the writes that quorum of the candidates carry.
Voted(writes, quorum) ==
  {w \in Range(writes) : Cardinality({i \in DOMAIN writes : writes[i] = w}) >= quorum}

\* The streams that are not exhausted, and their heads; used holds the
\* positions consumed, as <<stream, index>>.
HeadAt(used, i) == 1 + Cardinality({u \in used : u[1] = i})
Heads(streams, used) ==
  {<<i, HeadAt(used, i)>> : i \in {j \in DOMAIN streams : HeadAt(used, j) <= Len(streams[j])}}

\* A name on fewer than quorum disks, or without a quorum for one record, is
\* passed over.
Elected(writes, quorum) ==
  IF Cardinality(DOMAIN writes) < quorum THEN {} ELSE Voted(writes, quorum)

\* merge_within_set: the smallest head of the streams, over and over.
RECURSIVE MergeSet(_, _, _)
MergeSet(streams, quorum, used) ==
  LET heads == Heads(streams, used)
      Key(h) == streams[h[1]][h[2]][1]
      target == Least({Key(h) : h \in heads})
      taken == {h \in heads : Key(h) = target}
      votes == Elected([i \in {h[1] : h \in taken} |->
                          streams[i][HeadAt(used, i)][2]], quorum)
      rest == MergeSet(streams, quorum, used \cup taken)
  IN IF heads = {} THEN <<>>
     ELSE IF votes = {} THEN rest ELSE <<<<target, CHOOSE w \in votes : TRUE>>>> \o rest

\* merge_across_sets; the newest record wins if two sets hold the key.
RECURSIVE MergeAll(_, _)
MergeAll(streams, used) ==
  LET heads == Heads(streams, used)
      At(h) == streams[h[1]][h[2]]
      target == Least({At(h)[1] : h \in heads})
      taken == {h \in heads : At(h)[1] = target}
      best == CHOOSE h \in taken : \A g \in taken : At(g)[2] <= At(h)[2]
  IN IF heads = {} THEN <<>> ELSE <<At(best)>> \o MergeAll(streams, used \cup taken)

ListQuorum == (Cardinality(SetDisks) + 1) \div 2

\* list_one_set: with too few walks the set answers with nothing, not an error.
ListOneSet(ws) ==
  IF Cardinality(DOMAIN ws) < ListQuorum THEN <<>> ELSE MergeSet(ws, ListQuorum, {})

\* Faulty variant of Cap: the walks stop one name short.
CapShort(max) == max

\* per_set_cap: one name more than the page, to see whether there is more.
Cap(max) == IF max = 0 THEN 0 ELSE max + 1

\* The end of Engine::list.  max = 0: all keys.
EngineList(streams, max) ==
  LET merged == MergeAll(streams, {})
  IN IF max > 0 /\ Len(merged) > Cap(max) THEN SubSeq(merged, 1, Cap(max)) ELSE merged

------------------------------------------------------------------------------
Names(infos) == Sorted({x[1] : x \in Range(infos)})

\* rollup_entries: a key with the delimiter beyond the prefix gives its common
\* prefix; an entry is a name, and only neighbours are compared.
RollUp(names, prefix) ==
  LET Cut(k) == {i \in Len(prefix) + 1 .. Len(k) : k[i] = SLASH}
      Entry(k) == IF Cut(k) = {} THEN k
                  ELSE SubSeq(k, 1, CHOOSE i \in Cut(k) : \A j \in Cut(k) : i <= j)
      entries == [i \in DOMAIN names |-> Entry(names[i])]
      new == {i \in DOMAIN names : Cut(names[i]) = {} \/ i = 1 \/ entries[i - 1] # entries[i]}
  IN [i \in 1 .. Cardinality(new) |->
        entries[CHOOSE j \in new : Cardinality({x \in new : x <= j}) = i]]

\* list_page with a delimiter: everything is listed, then cut at the cursor.
DelimitedPage(streams, prefix, after, max) ==
  LET entries == RollUp(Names(EngineList(streams, 0)), prefix)
      start == Cardinality({i \in DOMAIN entries : after # <<>> /\ ~ Less(after, entries[i])})
      end == IF start + max < Len(entries) THEN start + max ELSE Len(entries)
  IN [page |-> SubSeq(entries, start + 1, end), more |-> end < Len(entries)]

\* list_page without one: a page longer than max_keys is truncated.
FlatPage(streams, max) ==
  LET names == Names(EngineList(streams, max))
  IN [page |-> SubSeq(names, 1, IF Len(names) < max THEN Len(names) ELSE max),
      more |-> Len(names) > max]

------------------------------------------------------------------------------
ListInit ==
  /\ ljob \in ListJob
  /\ held = [s \in ListSets |-> [d \in SetDisks |-> [k \in {x \in ljob.keys : Place(x) = s} |-> 1]]]
  /\ walks = [s \in ListSets |-> <<>>] /\ sets = [s \in ListSets |-> <<>>]
  /\ cursor = <<>> /\ listed = <<>> /\ lphase = "paging" /\ agreed = TRUE
  /\ batch = [s \in ListSets |-> IF \E k \in ljob.drop : Place(k) = s THEN SetDisks ELSE {}]
  /\ dropped = [k \in ljob.drop |-> <<>>]
  /\ verdict = [k \in ljob.drop |-> "none"]
  /\ lfaults = 0

\* A PUT reaches one disk (ObjectSet models the PUT itself).
PutLands(s, d, k) ==
  /\ lphase # "done"
  /\ k \in ljob.churn /\ Place(k) = s
  /\ k \in DOMAIN held[s][d] => held[s][d][k] = 1
  /\ held' = [held EXCEPT ![s][d] = [x \in DOMAIN @ \cup {k} |-> IF x = k THEN 2 ELSE @[x]]]
  /\ UNCHANGED <<ljob, walks, sets, cursor, listed, lphase, agreed, batch, dropped, verdict, lfaults>>

\* The walk a page asks for: with a delimiter all the keys of the prefix.
Query ==
  [prefix |-> ljob.prefix,
   after |-> IF ljob.delim THEN <<>> ELSE cursor,
   cap |-> IF ljob.delim THEN 0 ELSE Cap(ljob.max)]

\* The disks of up answer with their walks.
WalkDisks(up) ==
  LET down == Cardinality({x \in ListSets \X SetDisks : x[2] \notin up[x[1]]})
  IN /\ lphase = "paging"
     /\ lfaults + down <= ListFaults
     /\ walks' = [s \in ListSets |-> [d \in up[s] |-> Walk(held[s][d], Query)]]
     /\ lphase' = "walked"
     /\ lfaults' = lfaults + down
     /\ UNCHANGED <<ljob, held, sets, cursor, listed, agreed, batch, dropped, verdict>>

\* A quorum of the set's disks gave the same walk.
Agree(ws) ==
  \E d \in DOMAIN ws : Cardinality({e \in DOMAIN ws : ws[e] = ws[d]}) >= ListQuorum

MergeDisks ==
  /\ lphase = "walked"
  /\ sets' = [s \in ListSets |-> ListOneSet(walks[s])]
  /\ agreed' = (agreed /\ \A s \in ListSets : Agree(walks[s]))
  /\ walks' = [s \in ListSets |-> <<>>]
  /\ lphase' = "merged"
  /\ UNCHANGED <<ljob, held, cursor, listed, batch, dropped, verdict, lfaults>>

\* list_objects_v1 and _v2 answer; the client follows the cursor it is given.
ListObjects ==
  LET r == IF ljob.delim THEN DelimitedPage(sets, ljob.prefix, cursor, ljob.max)
           ELSE FlatPage(sets, ljob.max)
  IN /\ lphase = "merged"
     /\ listed' = listed \o r.page
     /\ lphase' = IF r.more THEN "paging" ELSE "done"
     /\ cursor' = IF r.more THEN Last(r.page) ELSE cursor
     /\ sets' = [s \in ListSets |-> <<>>]
     /\ UNCHANGED <<ljob, held, walks, agreed, batch, dropped, verdict, lfaults>>

------------------------------------------------------------------------------
\* delete_batch on one drive: every key of the set, each with its own answer.
DeleteBatch(s, d) ==
  /\ d \in batch[s]
  /\ held' = [held EXCEPT ![s][d] = [k \in DOMAIN @ \ ljob.drop |-> @[k]]]
  /\ dropped' = [k \in ljob.drop |->
                   IF Place(k) # s THEN dropped[k]
                   ELSE Append(dropped[k], IF k \in DOMAIN held[s][d] THEN "ok" ELSE "missing")]
  /\ batch' = [batch EXCEPT ![s] = @ \ {d}]
  /\ UNCHANGED <<ljob, walks, sets, cursor, listed, lphase, agreed, verdict, lfaults>>

\* The drive fails the batch as a whole: its answers are not counted.
DeleteBatchFails(s, d) ==
  /\ d \in batch[s]
  /\ lfaults < ListFaults
  /\ batch' = [batch EXCEPT ![s] = @ \ {d}]
  /\ lfaults' = lfaults + 1
  /\ UNCHANGED <<ljob, held, walks, sets, cursor, listed, lphase, agreed, dropped, verdict>>

\* The drive cannot remove one of the keys and answers so.
DeleteKeyFails(s, d, k) ==
  /\ d \in batch[s]
  /\ k \in ljob.drop /\ Place(k) = s /\ k \in DOMAIN held[s][d]
  /\ lfaults < ListFaults
  /\ held' = [held EXCEPT ![s][d] = [x \in DOMAIN @ \ (ljob.drop \ {k}) |-> @[x]]]
  /\ dropped' = [x \in ljob.drop |->
                   IF Place(x) # s THEN dropped[x]
                   ELSE Append(dropped[x], IF x = k THEN "error"
                                           ELSE IF x \in DOMAIN held[s][d] THEN "ok" ELSE "missing")]
  /\ batch' = [batch EXCEPT ![s] = @ \ {d}]
  /\ lfaults' = lfaults + 1
  /\ UNCHANGED <<ljob, walks, sets, cursor, listed, lphase, agreed, verdict>>

\* Faulty variant of Outcome: one drive that removed the key is enough.
OutcomeAny(answers) ==
  IF "ok" \in Range(answers) THEN "ok"
  ELSE IF "error" \in Range(answers) THEN "error" ELSE "NoSuchKey"

\* The result of a key: the write quorum, all the disks of the set, removed it
\* or did not have it; or its first error; or ObjectNotFound.
Outcome(answers) ==
  IF Cardinality({i \in DOMAIN answers : answers[i] # "error"}) >= Cardinality(SetDisks) THEN "ok"
  ELSE IF "error" \in Range(answers) THEN "error" ELSE "NoSuchKey"

\* delete_objects, once every drive has answered.
DeleteObjects ==
  /\ \E k \in ljob.drop : verdict[k] = "none"
  /\ \A s \in ListSets : batch[s] = {}
  /\ verdict' = [k \in ljob.drop |-> Outcome(dropped[k])]
  /\ UNCHANGED <<ljob, held, walks, sets, cursor, listed, lphase, agreed, batch, dropped, lfaults>>

ListNext ==
  \/ \E s \in ListSets, d \in SetDisks, k \in ljob.churn : PutLands(s, d, k)
  \/ \E up \in [ListSets -> SUBSET SetDisks] : WalkDisks(up)
  \/ MergeDisks
  \/ ListObjects
  \/ \E s \in ListSets, d \in SetDisks : DeleteBatch(s, d) \/ DeleteBatchFails(s, d)
  \/ \E s \in ListSets, d \in SetDisks, k \in ljob.drop : DeleteKeyFails(s, d, k)
  \/ DeleteObjects

------------------------------------------------------------------------------
\* The keys no request touches while the client lists.
Stable == {k \in ljob.keys \ (ljob.churn \cup ljob.drop) : IsPrefix(ljob.prefix, k)}

\* In key order a directory's keys are where the directory sorts among its
\* siblings: no name continues a directory's name with a byte below "/", and no
\* key is also the directory of another.
Orderly ==
  \A a, b \in ljob.keys \cup ljob.churn :
    a # b =>
      /\ ~ IsPrefix(Append(a, SLASH), b)
      /\ \A i \in 1 .. Len(a) :
           (a[i] = SLASH /\ Len(b) >= i /\ SubSeq(a, 1, i - 1) = SubSeq(b, 1, i - 1)) => b[i] >= SLASH

Shown(k) == \E n \in Range(listed) : n = k \/ (ljob.delim /\ Last(n) = SLASH /\ IsPrefix(n, k))

\* A client that follows the cursors to the last page has seen every key that
\* stood in the bucket all along, whatever PUTs, deletes and drive failures went
\* on beside it: if a quorum of the walks of each set agreed in every page, and
\* the bucket is Orderly (list_page, Engine::list, merge_within_set).
ListComplete ==
  (lphase = "done" /\ agreed /\ Orderly) => \A k \in Stable : Shown(k)

\* A name is returned once and later pages only hold later names: the cursor
\* resumes strictly after the last name returned (buckets.rs, continuation_token).
ListOrdered == \A i \in 1 .. Len(listed) - 1 : Less(listed[i], listed[i + 1])

\* A key DeleteObjects reports as deleted is on no drive of its set, unless a
\* PUT wrote it while the batch ran (delete_objects takes no lock).
DeletedGone ==
  \A k \in ljob.drop \ ljob.churn :
    verdict[k] = "ok" => \A d \in SetDisks : k \notin DOMAIN held[Place(k)][d]

\* What the listing test says of the engine ("LIST must surface every one",
\* "listing must be lex-sorted"), of a bucket with any keys: the pages show
\* every key that stood in it all along.
ListsEveryKey ==
  (lphase = "done" /\ agreed) => \A k \in Stable : Shown(k)

\* The pages of a listing, put together, are the bucket's stable keys in order and
\* without repetition (list_page, Engine::list).
ListExact == ListComplete /\ ListOrdered
===============================================================================
