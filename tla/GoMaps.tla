------------------------------- MODULE GoMaps --------------------------------
(* Go maps as partial functions. *)
EXTENDS Functions

\* A map with keys from S and values from T.
IsMap(f, S, T) == f \in [DOMAIN f -> T] /\ DOMAIN f \subseteq S

\* f[key] = value
Put(f, key, value) ==
  [x \in DOMAIN f \cup {key} |-> IF x = key THEN value ELSE f[x]]

\* delete(f, key); a no-op when the key is absent.
Delete(f, key) == Restrict(f, DOMAIN f \ {key})

\* One value for every key of S; HSET on a Redis hash.
PutAll(f, S, value) ==
  [x \in DOMAIN f \cup S |-> IF x \in S THEN value ELSE f[x]]

\* Without the keys of S; HDEL or ZREM in Redis.
DeleteAll(f, S) == Restrict(f, DOMAIN f \ S)
=============================================================================
