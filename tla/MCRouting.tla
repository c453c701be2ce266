------------------------------ MODULE MCRouting ------------------------------
(***************************************************************************)
(* An instance of Routing for TLC: payloads with one value, several, null, *)
(* an array and none at a path, and filters of every type and operator.    *)
(***************************************************************************)
EXTENDS Routing, TLC

CONSTANTS v1, v2, q1, q2

String(t) == [kind |-> "string", text |-> t]
Array(V)  == [kind |-> "array", items |-> V]
Cond(op, v) == [path |-> "field", op |-> op, value |-> v]

MCPaths     == {"asset", "field"}
MCSubstring == {<<"1", "1">>, <<"1", "21">>, <<"21", "21">>, <<"false", "false">>}

MCPayloads == {
  [asset |-> {String("1")}, field |-> {[kind |-> "number", text |-> "21"]}],
  [asset |-> {String("1"), String("21"), Null}, field |-> {}],
  [asset |-> {}, field |-> {Null, Array({String("1"), Null})}]}

Keyed(K)  == [type |-> "routing_key_in", keys |-> K, conds |-> {}]
Fields(C) == [type |-> "jsonpath_match", keys |-> {}, conds |-> C]

MCFilters == {
  [type |-> "all", keys |-> {}, conds |-> {}],
  Keyed({"1"}), Keyed({}),
  Fields({Cond("neq", String("21")), Cond("exists", False)}),
  Fields({Cond("eq", Null), Cond("contains", String("1")), Cond("in", Array({Null}))}),
  Fields({Cond("in", String("21"))}), Fields({Cond("like", String("21"))})}

Kept == [type |-> Keep, keys |-> Keep, conds |-> Keep, default |-> Keep, enabled |-> Keep]

MCPatches == {
  [Kept EXCEPT !.type = "routing_key_in"], [Kept EXCEPT !.keys = {}],
  [Kept EXCEPT !.type = "all", !.default = TRUE, !.enabled = FALSE]}

Interchangeable == Permutations(Services) \union Permutations(Requests)

=============================================================================
