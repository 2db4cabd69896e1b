---------------------------- MODULE RequestStore ----------------------------
(***************************************************************************)
(* The table meta_transaction_requests and the queries and statements the  *)
(* processor runs against it.  Every statement is one autocommitted SQL    *)
(* statement, so each operator below is one atomic step.                   *)
(***************************************************************************)
EXTENDS MetaTransactions

VARIABLES
    rows,       \* the table: its row, or Null, for each primary key
    inserts     \* history: how many times each key was inserted

storeVars == <<rows, inserts>>

StoreTypeOK ==
    /\ rows \in [Request -> Row \union {Null}]
    /\ inserts \in [Request -> Nat]

StoreInit ==
    /\ rows = [r \in Request |-> Null]
    /\ inserts = [r \in Request |-> 0]

\* Variant: the query forgets the wallet.
RowsOfAll(w) == {r \in Request : rows[r] # Null}

\* SELECT ... WHERE wallet_index = w
RowsOf(w) == {r \in Request : rows[r] # Null /\ rows[r].wallet = w}

\* SELECT ... WHERE submitted_block_number IS NOT NULL AND wallet_index = w
Active(w) == {r \in RowsOf(w) : rows[r].submitted # Null}

\* ... ORDER BY id ASC LIMIT 1
First(S) == {r \in S : \A s \in S : r <= s}

NewRow(w) == [wallet |-> w, nonce |-> Null, hash |-> Null,
              submitted |-> Null, mined |-> Null, boosted |-> Null]

\* Variant: ON CONFLICT (id) DO UPDATE.
OnConflictDoUpdate(old, new) == new

\* ON CONFLICT (id) DO NOTHING
OnConflict(old, new) == IF old = Null THEN new ELSE old

\* INSERT ... VALUES (r, ..., w) ON CONFLICT ...
Upsert(r, w) ==
    /\ rows' = [rows EXCEPT ![r] = OnConflict(@, NewRow(w))]
    /\ inserts' = IF rows[r] = Null THEN [inserts EXCEPT ![r] = @ + 1] ELSE inserts

\* UPDATE ... WHERE id = r. An id without a row updates nothing, and that is
\* no error.  The caller passes the stored row with the whitelisted columns
\* replaced.
Update(r, new) ==
    /\ rows' = IF rows[r] = Null THEN rows ELSE [rows EXCEPT ![r] = new]
    /\ UNCHANGED inserts

\* DELETE ... WHERE id = r
Delete(r) ==
    /\ rows' = [rows EXCEPT ![r] = Null]
    /\ UNCHANGED inserts
=============================================================================
