------------------------------ MODULE KeyValue ------------------------------
(***************************************************************************)
(* Two of the key-value adapters that everything else is built on: the     *)
(* store in memory (src/src/kv/memory.ts) and the engine of the Durable    *)
(* Object (src/src/kv/durable-object.ts), which keeps a collection as one  *)
(* storage entry per member. Both serve the same calls, about one key,     *)
(* while time passes and keys expire.                                      *)
(*                                                                         *)
(* The event loop and the object's input gate let one call at a time       *)
(* touch the store, so a call is a step. hget, hexists, hkeys, hlen,       *)
(* sismember, scard, zscore and zcard read part of what hgetall, smembers  *)
(* and zrange read; incr and decr are incrBy.                              *)
(***************************************************************************)
EXTENDS Integers, FiniteSets, SequencesExt

CONSTANTS
    Calls,          \* bound: the calls that are made
    Missing,        \* null
    MaxTime,        \* bound: the clock
    MaxScore,       \* bound: scores, and the numbers that strings hold
    MaxDrift        \* bound: how far a list moves from position 0

Hashes == {"hset", "hmset", "hdel", "hgetall"}
Sets == {"sadd", "srem", "smembers"}
Lists == {"lpush", "rpush", "lpop", "rpop", "lrange", "llen", "ltrim"}
ZSets == {"zadd", "zincrby", "zrem", "zrange", "zrangebyscore"}
Kind(c) == CASE c.op \in Hashes -> "hash" [] c.op \in Sets -> "set"
             [] c.op \in Lists -> "list" [] c.op \in ZSets -> "zset"
             [] OTHER -> "string"
Collections == {"hash", "set", "list", "zset"}

ASSUME KeyValueAssumption ==
    /\ MaxTime \in Nat /\ MaxScore \in Nat /\ MaxDrift \in Nat

VARIABLES
    clock,
    memory,         \* the entry of MemoryKVStore
    durable,        \* the storage of DurableKVEngine
    diverged        \* whether a write has met an expired collection in memory, with effect

kvVars == <<clock, memory, durable, diverged>>

Never == 0
Expired(exp) == exp # Never /\ clock > exp
Until(ttl) == IF ttl = 0 THEN Never ELSE clock + ttl
Remaining(exp) == IF exp = Never THEN -1 ELSE IF exp > clock THEN exp - clock ELSE -2

\* Array.slice(from, to) of a sequence, with a non-negative from.
Slice(s, from, to) ==
    SubSeq(s, from + 1, IF to < 0 THEN Max({Len(s) + to, 0}) ELSE Min({to, Len(s)}))
First(n, start) == IF start < 0 THEN Max({n + start, 0}) ELSE start
Final(n, stop) == IF stop < 0 THEN n + stop ELSE stop

Ascending(S) == [i \in 1..Cardinality(S) |-> CHOOSE x \in S : Cardinality({y \in S : y < x}) = i - 1]

\* A stable sort by score.
Sorted(z) ==
    LET scores == Ascending({z[i].score : i \in DOMAIN z})
    IN FlattenSeq([k \in DOMAIN scores |-> SelectSeq(z, LAMBDA m : m.score = scores[k])])
Names(z) == [i \in DOMAIN z |-> z[i].member]
Scored(z, c) == Slice(SelectSeq(z, LAMBDA m : m.score \in c.min..c.max), c.offset, c.offset + c.count)

\* Functions as maps.
Put(f, x, y) == [z \in DOMAIN f \cup {x} |-> IF z = x THEN y ELSE f[z]]
Less(f, gone) == [z \in DOMAIN f \ gone |-> f[z]]
New(f, x) == IF x \in DOMAIN f THEN 0 ELSE 1

-----------------------------------------------------------------------------
(* MemoryKVStore *)

Absent == [type |-> "none", content |-> <<>>, exp |-> Never]
Reply(entry, answer) == [entry |-> entry, answer |-> answer]

\* checkExpiry, which these operations do first.
Checked == {"get", "set", "exists", "incrBy", "hset", "hgetall", "srem", "smembers",
            "lpop", "rpop", "lrange", "llen", "zrange", "zrangebyscore"}

Kept(e) == IF Expired(e.exp) THEN Absent ELSE e

OnString(c, e) ==
    LET present == e.type # "none" text == IF e.type = "string" THEN e.content ELSE Missing IN
    CASE c.op = "get" -> Reply(e, text)
      [] c.op = "set" ->
           Reply(IF (c.only = "nx" /\ present) \/ (c.only = "xx" /\ ~present) THEN e
                 ELSE [type |-> "string", content |-> c.value, exp |-> Until(c.ttl)], "OK")
      [] c.op = "incrBy" ->
           LET n == (IF text = Missing THEN 0 ELSE text) + c.by
           IN Reply([type |-> "string", content |-> n, exp |-> e.exp], n)
      [] c.op = "exists" -> Reply(e, present)
      [] c.op = "del" -> Reply(Absent, present)
      [] c.op = "expire" -> Reply(IF present THEN [e EXCEPT !.exp = Until(c.ttl)] ELSE e, present)
      [] c.op = "ttl" -> Reply(e, IF present THEN Remaining(e.exp) ELSE -2)

\* What an operation makes of the value of a collection: [entry |-> new value, answer |-> ...].
OnHash(c, f) ==
    CASE c.op = "hset" -> Reply(Put(f, c.member, c.value), New(f, c.member))
      [] c.op = "hmset" -> Reply(c.data @@ f, "OK")
      [] c.op = "hdel" -> Reply(Less(f, {c.member}), 1 - New(f, c.member))
      [] c.op = "hgetall" -> Reply(f, f)

OnSet(c, s) ==
    CASE c.op = "sadd" -> Reply(s \cup {c.member}, c.member \notin s)
      [] c.op = "srem" -> Reply(s \ {c.member}, c.member \in s)
      [] c.op = "smembers" -> Reply(s, s)

OnList(c, s) ==
    LET n == Len(s) IN
    CASE c.op = "lpush" -> Reply(Reverse(c.values) \o s, n + Len(c.values))
      [] c.op = "rpush" -> Reply(s \o c.values, n + Len(c.values))
      [] c.op = "lpop" -> IF n = 0 THEN Reply(s, Missing) ELSE Reply(Tail(s), Head(s))
      [] c.op = "rpop" -> IF n = 0 THEN Reply(s, Missing) ELSE Reply(Front(s), Last(s))
      [] c.op = "lrange" -> Reply(s, Slice(s, First(n, c.start), Final(n, c.stop) + 1))
      [] c.op = "llen" -> Reply(s, n)
      [] c.op = "ltrim" -> Reply(Slice(s, First(n, c.start), Final(n, c.stop) + 1), "OK")

\* A sorted set is an array, sorted again after every write.
Placed(z, member, score) ==
    Sorted(IF \E i \in DOMAIN z : z[i].member = member
           THEN [i \in DOMAIN z |-> IF z[i].member = member THEN [z[i] EXCEPT !.score = score] ELSE z[i]]
           ELSE Append(z, [member |-> member, score |-> score]))
OnZSet(c, z) ==
    LET of(m) == {z[i].score : i \in {j \in DOMAIN z : z[j].member = m}}
        n == Len(z)
    IN CASE c.op = "zadd" -> Reply(Placed(z, c.member, c.score), IF of(c.member) = {} THEN 1 ELSE 0)
         [] c.op = "zincrby" ->
              LET score == c.by + (IF of(c.member) = {} THEN 0 ELSE Max(of(c.member)))
              IN Reply(Placed(z, c.member, score), score)
         [] c.op = "zrem" -> Reply(SelectSeq(z, LAMBDA m : m.member # c.member), of(c.member) # {})
         [] c.op = "zrange" -> Reply(z, Names(Slice(z, First(n, c.start), Final(n, c.stop) + 1)))
         [] c.op = "zrangebyscore" -> Reply(z, Names(Scored(z, c)))

\* These make the key a collection of their kind, whatever it was.
Creates == {"hset", "hmset", "sadd", "lpush", "rpush", "zadd", "zincrby"}

OnCollection(c, e) ==
    LET mine == e.type = Kind(c)
        value == IF mine THEN e.content ELSE IF c.op \in Sets THEN {} ELSE <<>>
        done == CASE c.op \in Hashes -> OnHash(c, value) [] c.op \in Sets -> OnSet(c, value)
                  [] c.op \in Lists -> OnList(c, value) [] c.op \in ZSets -> OnZSet(c, value)
    IN Reply(CASE mine -> [e EXCEPT !.content = done.entry]
               [] ~mine /\ c.op \in Creates -> [type |-> Kind(c), content |-> done.entry, exp |-> Never]
               [] OTHER -> e,
             done.answer)

InMemory(c) ==
    LET e == IF c.op \in Checked THEN Kept(memory) ELSE memory
    IN IF Kind(c) = "string" THEN OnString(c, e) ELSE OnCollection(c, e)

-----------------------------------------------------------------------------
(* DurableKVEngine: a string entry, a meta entry, and rows of members. *)

NoText == [value |-> Missing, exp |-> Never]
NoMeta == [type |-> "none", exp |-> Never, head |-> 0, tail |-> 0]
NoData == [text |-> NoText, meta |-> NoMeta, rows |-> [k \in Collections |-> <<>>]]

HasText(d) == d.text.value # Missing
HasMeta(d) == d.meta.type # "none"

\* Mutant of DeleteKey: the members stay.
DeleteKeyOnly(d) == [d EXCEPT !.text = NoText, !.meta = NoMeta]

\* deleteLogicalKey: the string, the meta entry and its members.
DeleteKey(d) ==
    [text |-> NoText, meta |-> NoMeta,
     rows |-> IF HasMeta(d) THEN [d.rows EXCEPT ![d.meta.type] = <<>>] ELSE d.rows]

ReadString(d) == IF Expired(d.text.exp) THEN [d EXCEPT !.text = NoText] ELSE d
ReadMeta(d) == IF Expired(d.meta.exp)
               THEN [d EXCEPT !.meta = NoMeta, !.rows[d.meta.type] = <<>>] ELSE d

\* prepareCollection
Prepare(d, kind) ==
    LET r == ReadMeta(d) IN
    IF r.meta.type = kind THEN r ELSE [DeleteKey(r) EXCEPT !.meta.type = kind]

DurableString(c, d) ==
    LET s == ReadString(d)
        m == ReadMeta(s)
        exists == HasText(m) \/ HasMeta(m)
    IN CASE c.op = "get" -> Reply(s, s.text.value)
         [] c.op = "set" ->
              Reply(IF (c.only = "nx" /\ exists) \/ (c.only = "xx" /\ ~exists) THEN m
                    ELSE [(IF HasMeta(m) THEN DeleteKey(m) ELSE m) EXCEPT
                            !.text = [value |-> c.value, exp |-> Until(c.ttl)]], "OK")
         [] c.op = "incrBy" ->
              LET n == (IF HasText(s) THEN s.text.value ELSE 0) + c.by IN
              Reply(IF HasText(s) THEN [s EXCEPT !.text.value = n]
                    ELSE [(IF HasMeta(m) THEN DeleteKey(m) ELSE m) EXCEPT
                            !.text = [value |-> n, exp |-> m.meta.exp]], n)
         [] c.op = "exists" -> IF HasText(s) THEN Reply(s, TRUE) ELSE Reply(m, HasMeta(m))
         [] c.op = "del" -> Reply(DeleteKey(d), HasText(d) \/ HasMeta(d))
         [] c.op = "expire" ->
              CASE HasText(s) -> Reply([s EXCEPT !.text.exp = Until(c.ttl)], TRUE)
                [] ~HasText(s) /\ HasMeta(m) -> Reply([m EXCEPT !.meta.exp = Until(c.ttl)], TRUE)
                [] OTHER -> Reply(m, FALSE)
         [] c.op = "ttl" ->
              CASE HasText(s) -> Reply(s, Remaining(s.text.exp))
                [] ~HasText(s) /\ HasMeta(m) -> Reply(m, Remaining(m.meta.exp))
                [] OTHER -> Reply(m, -2)

\* Operations that write one row of the prepared collection.
DurableWrite(c, d) ==
    LET kind == Kind(c)
        ready == Prepare(d, kind)
        rows == ready.rows[kind]
        with(f) == [ready EXCEPT !.rows[kind] = f]
    IN CASE c.op = "hset" -> Reply(with(Put(rows, c.member, c.value)), New(rows, c.member))
         [] c.op = "hmset" -> Reply(with(c.data @@ rows), "OK")
         [] c.op = "sadd" -> Reply(with(Put(rows, c.member, 1)), c.member \notin DOMAIN rows)
         [] c.op = "zadd" -> Reply(with(Put(rows, c.member, c.score)), New(rows, c.member))
         [] c.op = "zincrby" ->
              LET score == c.by + (IF c.member \in DOMAIN rows THEN rows[c.member] ELSE 0)
              IN Reply(with(Put(rows, c.member, score)), score)

\* Rows in the order of their keys. Members are numbers here, as list positions are.
Listed(rows) == LET keys == Ascending(DOMAIN rows) IN [i \in DOMAIN keys |-> rows[keys[i]]]
LoadZSet(rows) ==
    LET keys == Ascending(DOMAIN rows)
    IN Sorted([i \in DOMAIN keys |-> [member |-> keys[i], score |-> rows[keys[i]]]])

DurableRead(c, r) ==
    LET mine == r.meta.type = Kind(c)
        rows == IF mine THEN r.rows[Kind(c)] ELSE <<>>
        without == IF mine THEN [r EXCEPT !.rows[Kind(c)] = Less(rows, {c.member})] ELSE r
        z == LoadZSet(rows)
    IN CASE c.op = "hgetall" -> Reply(r, rows)
         [] c.op = "hdel" -> Reply(without, 1 - New(rows, c.member))
         [] c.op = "smembers" -> Reply(r, DOMAIN rows)
         [] c.op \in {"srem", "zrem"} -> Reply(without, c.member \in DOMAIN rows)
         [] c.op = "zrange" ->
              Reply(r, Names(Slice(z, First(Len(z), c.start), Final(Len(z), c.stop) + 1)))
         [] c.op = "zrangebyscore" -> Reply(r, Names(Scored(z, c)))

DurablePush(c, d) ==
    LET ready == Prepare(d, "list")
        n == Len(c.values)
        head == IF c.op = "lpush" THEN ready.meta.head - n ELSE ready.meta.head
        tail == IF c.op = "rpush" THEN ready.meta.tail + n ELSE ready.meta.tail
        added == IF c.op = "lpush"
                 THEN [i \in head..(ready.meta.head - 1) |-> c.values[ready.meta.head - i]]
                 ELSE [i \in ready.meta.tail..(tail - 1) |-> c.values[i - ready.meta.tail + 1]]
    IN Reply([ready EXCEPT !.rows["list"] = added @@ @, !.meta.head = head, !.meta.tail = tail], tail - head)

\* ltrim: the entries from the one-th to the other, counted in the order of their keys, are kept.
Trimmed(r, from, to) ==
    LET keys == Ascending(DOMAIN r.rows["list"]) IN
    [r EXCEPT !.rows["list"] = Less(@, {keys[i + 1] : i \in {j \in 0..(Len(keys) - 1) : j < from \/ j > to}}),
              !.meta.head = IF from > to THEN 0 ELSE r.meta.head + from,
              !.meta.tail = IF from > to THEN 0 ELSE r.meta.head + to + 1]

DurableList(c, r) ==
    LET mine == r.meta.type = "list"
        head == r.meta.head
        tail == r.meta.tail
        s == IF mine THEN Listed(r.rows["list"]) ELSE <<>>
        n == Len(s)
        dropped(i) == [r EXCEPT !.rows["list"] = Less(@, {i})]
    IN CASE c.op = "lpop" -> IF ~mine \/ head >= tail THEN Reply(r, Missing)
                             ELSE Reply([dropped(head) EXCEPT !.meta.head = head + 1], r.rows["list"][head])
         [] c.op = "rpop" -> IF ~mine \/ head >= tail THEN Reply(r, Missing)
                             ELSE Reply([dropped(tail - 1) EXCEPT !.meta.tail = tail - 1], r.rows["list"][tail - 1])
         [] c.op = "lrange" -> Reply(r, Slice(s, First(n, c.start), Final(n, c.stop) + 1))
         [] c.op = "llen" -> Reply(r, IF mine THEN tail - head ELSE 0)
         [] c.op = "ltrim" ->
              Reply(IF mine THEN Trimmed(r, First(n, c.start), Min({Final(n, c.stop), n - 1})) ELSE r, "OK")

InObject(c) ==
    CASE Kind(c) = "string" -> DurableString(c, durable)
      [] c.op \in {"lpush", "rpush"} -> DurablePush(c, durable)
      [] c.op \in Lists \ {"lpush", "rpush"} -> DurableList(c, ReadMeta(durable))
      [] c.op \in Creates \ {"lpush", "rpush"} -> DurableWrite(c, durable)
      [] OTHER -> DurableRead(c, ReadMeta(durable))

-----------------------------------------------------------------------------

\* What each of them would show of the key.
Shown(e) == IF Expired(e.exp) THEN Absent ELSE e
ShownObject(d) ==
    LET r == ReadMeta(ReadString(d))
        rows == r.rows[r.meta.type]
    IN CASE HasText(r) -> [type |-> "string", content |-> r.text.value, exp |-> r.text.exp]
         [] ~HasText(r) /\ HasMeta(r) ->
              [type |-> r.meta.type, exp |-> r.meta.exp,
               content |-> CASE r.meta.type = "hash" -> rows [] r.meta.type = "set" -> DOMAIN rows
                           [] r.meta.type = "list" -> Listed(rows) [] r.meta.type = "zset" -> LoadZSet(rows)]
         [] OTHER -> Absent
Agree(e, d) ==
    LET m == Shown(e) o == ShownObject(d) IN
    /\ m.type = o.type /\ m.exp = o.exp
    /\ IF m.type = "zset" THEN ToSet(m.content) = ToSet(o.content) ELSE m.content = o.content

\* Calls of which the two make something else: writes that do not look at the expiry in memory,
\* and a trim that ends more than a list's length before the list.
Strays(c) ==
    \/ Expired(memory.exp) /\ c.op \notin Checked
    \/ c.op = "ltrim" /\ c.stop < 0 /\ memory.type = "list" /\ Len(memory.content) + c.stop < -1

KeyValueInit == clock = 1 /\ memory = Absent /\ durable = NoData /\ diverged = FALSE

\* Bounds. Where the two differ, nothing is called but what may bring them together again.
Bounded(e, d) ==
    /\ -MaxDrift <= d.meta.head /\ d.meta.tail <= MaxDrift
    /\ e.type = "string" => e.content \in -MaxScore..MaxScore
    /\ e.type = "zset" => \A i \in DOMAIN e.content : e.content[i].score <= MaxScore

Call(c) ==
    LET e == InMemory(c).entry
        d == InObject(c).entry
    IN /\ diverged => c.op \in {"set", "del"}
       /\ Bounded(e, d)
       /\ memory' = e
       /\ durable' = d
       /\ diverged' = ((diverged \/ Strays(c)) /\ ~Agree(e, d))
       /\ UNCHANGED clock

\* The interval that connect() starts.
Cleanup ==
    /\ Expired(memory.exp)
    /\ memory' = Absent
    /\ diverged' = (diverged /\ ~Agree(Absent, durable))
    /\ UNCHANGED <<clock, durable>>

Pass == clock < MaxTime /\ clock' = clock + 1 /\ UNCHANGED <<memory, durable, diverged>>

KeyValueNext == (\E c \in Calls : Call(c)) \/ Cleanup \/ Pass
KeyValueSpec == KeyValueInit /\ [][KeyValueNext]_kvVars

-----------------------------------------------------------------------------
(* Properties *)

\* The order of members with equal scores is the order of their arrival in memory, and the order
\* of their names in the object.
Tied == memory.type = "zset" /\ \E i, j \in DOMAIN memory.content :
            i # j /\ memory.content[i].score = memory.content[j].score

\* "A Redis-compatible key-value abstraction" (website/docs/platform/kv.md): whatever was called
\* before, both stores answer every call alike, but for those that stray, and ranges with ties.
SameAnswers ==
    ~diverged => \A c \in Calls :
        \/ Strays(c)
        \/ c.op = "del" /\ ReadMeta(ReadString(durable)) # durable
        \/ c.op \in {"zrange", "zrangebyscore"} /\ Tied
        \/ InMemory(c).answer = InObject(c).answer

\* The object's storage is whole after every call: one kind of value, no rows without it, and
\* the positions of a list without a gap, from head to tail.
DurableLayout ==
    /\ ~ (HasText(durable) /\ HasMeta(durable))
    /\ \A kind \in Collections : durable.rows[kind] # <<>> => durable.meta.type = kind
    /\ durable.meta.type = "list" => DOMAIN durable.rows["list"] = durable.meta.head..(durable.meta.tail - 1)
=============================================================================
