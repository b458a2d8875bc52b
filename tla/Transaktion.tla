----------------------------- MODULE Transaktion -----------------------------
(***************************************************************************)
(* The write transactions of the backend, as every handler opens them      *)
(* (`transaction_session`, then `session.with_transaction`).               *)
(*                                                                         *)
(* A transaction reads ONE snapshot of the database, taken at its first    *)
(* read, judges it, and writes documents.  MongoDB keeps two transactions  *)
(* from both committing only when they write a common document (I53): what *)
(* one merely READ it may have read too early.  The state of one actor is  *)
(* therefore a record of                                                   *)
(*                                                                         *)
(*   phase    - "frei": none open; "offen": judged, a second reading       *)
(*              OUTSIDE the session still owed (I118); "bereit": ready to  *)
(*              commit                                                     *)
(*   op       - what the callback decided, with every figure it keeps from *)
(*              its snapshot                                               *)
(*   schreibt - the documents it writes.  An anchor (`$inc` of             *)
(*              bounded_writes) is in this set and changes nothing else; a *)
(*              `$set` of the value already stored is NOT in it (I117)     *)
(*                                                                         *)
(* MongoDB gives the document to the first WRITER, this module to the      *)
(* first COMMITTER.  The loser is aborted either way and `with_transaction`*)
(* runs its callback again on a fresh snapshot, so the committed histories *)
(* are the same; the retry is the actor opening the transaction anew.      *)
(***************************************************************************)

\* No operation: what an actor between two transactions holds.
KeinOp == [art |-> "keiner"]

\* core/transactions.py: no session open.
Frei == [phase |-> "frei", op |-> KeinOp, schreibt |-> {}]

\* A callback that re-reads outside the session before it answers (I118).
Offen(op, W) == [phase |-> "offen", op |-> op, schreibt |-> W]

\* A callback with nothing left but the commit.
Bereit(op, W) == [phase |-> "bereit", op |-> op, schreibt |-> W]

\* The other actor's transaction writes a document this commit wrote too.
Kollidiert(t, u) == t.schreibt \cap u.schreibt # {}

(***************************************************************************)
(* `a` commits: its session ends, and every open transaction writing one   *)
(* of the same documents is aborted by the server.                         *)
(***************************************************************************)
Festgeschrieben(tx, a) ==
  [b \in DOMAIN tx |-> IF b = a \/ Kollidiert(tx[a], tx[b]) THEN Frei ELSE tx[b]]
=============================================================================
