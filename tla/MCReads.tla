------------------------------ MODULE MCReads -------------------------------
(* A small instance of the reading side for TLC. *)
EXTENDS Reads

Row(id, kind, account, product, model, ts, qty) ==
  [id |-> id, kind |-> kind, account |-> account, product |-> product,
   model |-> model, ts |-> ts, qty |-> qty]

\* Quantities up to both ends of their width; rows at and around hour limits.
MCPool ==
  {Row(1, "Usage", 1, 1, 1, 1, 7),
   Row(2, "Usage", 3, 2, None, 2, 15),
   Row(3, "Correction", 1, 1, 2, 3, -5),
   Row(4, "Usage", 2, 1, None, 4, 1),
   Row(5, "Retraction", 1, 2, 1, 2, -16),
   Row(6, "Usage", 1, 1, 1, 5, 0)}

MCBucketOf == [account \in 1..3 |-> account % 2]

Cond(op, field, values) == [op |-> op, field |-> field, values |-> values]

MCFilters ==
  LET on(field, values) == [field |-> field, values |-> values]
  IN {<<>>, <<on("product_id", {2})>>, <<on("product_id", {1}), on("product_id", {2})>>,
      <<on("model_id", {1})>>, <<on("product_id", {})>>,
      <<on("kind", {"Correction", "Retraction"})>>}

\* Not among them: two equalities on the account, of which the second wins, and
\* equalities on the time, which match nothing.
MCWheres ==
  LET times == {Cond(op, "timestamp_ms", {v}) : op \in RangeOps, v \in {2, 3, I64Max}}
      columns == {Cond("Eq", "account_id", {1}), Cond("In", "account_id", {1, 2}), Cond("In", "product_id", {2}),
                  Cond("Eq", "model_id", {1}), Cond("Eq", "kind", {"Usage"})}
  IN {<<c>> : c \in times \cup columns} \cup {<<c, d>> : c \in times, d \in times \cup columns}
       \cup {<<>>}

=============================================================================
