--------------------------------- MODULE Maps ---------------------------------
(***************************************************************************)
(* Go's maps as functions whose domains change, and a value for an         *)
(* absent pointer.                                                         *)
(***************************************************************************)
Put(f, key, value) == [k \in DOMAIN f \union {key} |-> IF k = key THEN value ELSE f[k]]
Over(f, g) == [k \in DOMAIN f \union DOMAIN g |-> IF k \in DOMAIN f THEN f[k] ELSE g[k]]
EmptyMap == [k \in {} |-> 0]
Nothing == [empty |-> TRUE]
===============================================================================
