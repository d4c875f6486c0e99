-------------------------- MODULE MC_Backlogs ---------------------------
(* Two tabs, an object of theirs and one the server has; and calls to a     *)
(* key-value store.                                                         *)
EXTENDS Backlogs

CONSTANTS t1, t2, fresh, stored

Edit(tab_, kind, obj, n, contested) ==
    [tab |-> tab_, kind |-> kind, obj |-> obj, n |-> n, contested |-> contested]

\* A create and an update of what it creates; two updates of one row, one contested; a contested
\* update and another tab's delete.
SomePlans == {{Edit(t1, "create", fresh, 0, FALSE), Edit(t1, "update", fresh, 0, FALSE)},
              {Edit(t1, "update", stored, 0, TRUE), Edit(t1, "update", stored, 1, FALSE)},
              {Edit(t1, "update", stored, 0, TRUE), Edit(t2, "delete", stored, 0, FALSE)}}

\* Every operation, with arguments that tell its cases apart.
SomeCalls ==
    {[op |-> o] : o \in {"get", "exists", "del", "ttl", "hgetall", "smembers", "lpop", "rpop", "llen"}}
    \cup [op : {"set"}, value : {1}, only : {"", "nx", "xx"}, ttl : {0, 1}]
    \cup [op : {"incrBy"}, by : {1, -1}] \cup [op : {"expire"}, ttl : {1}]
    \cup [op : {"hset"}, member : {1, 2}, value : {1, 2}] \cup {[op |-> "hmset", data |-> <<1, 2>>]}
    \cup [op : {"hdel", "sadd", "srem", "zrem"}, member : {1, 2}]
    \cup [op : {"lpush", "rpush"}, values : {<<1>>, <<1, 2>>}]
    \cup [op : {"lrange", "ltrim", "zrange"}, start : {0, 1, -2}, stop : {0, -1, -4}]
    \cup [op : {"zadd"}, member : {1, 2}, score : {1, 3}] \cup [op : {"zincrby"}, member : {1}, by : {1}]
    \cup [op : {"zrangebyscore"}, min : {1, 2}, max : {2}, offset : {0, 1}, count : {1}]
=============================================================================
