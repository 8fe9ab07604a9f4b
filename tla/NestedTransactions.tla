-------------------------- MODULE NestedTransactions --------------------------
(****************************************************************************)
(* What SQLAlchemy promises of begin() and begin_nested(): each level of     *)
(* nesting is undone or kept as a whole.                                     *)
(****************************************************************************)
EXTENDS Integers, Sequences

CONSTANT Rows

VARIABLES
    durable,            \* the rows other sessions see
    layers,             \* layers[i]: what the i-th open level has written, the
                        \*   root transaction first; empty with none open
    call                \* what the client asked for last

vars == <<durable, layers, call>>

Written == UNION { layers[i] : i \in DOMAIN layers }
Visible == durable \cup Written

Top(seq) == seq[Len(seq)]
Below(seq) == SubSeq(seq, 1, Len(seq) - 1)

Init ==
    /\ durable = {}
    /\ layers = <<>>
    /\ call = "none"

Begin ==
    /\ layers = <<>>
    /\ layers' = <<{}>>
    /\ call' = "begin"
    /\ UNCHANGED durable

BeginNested ==
    /\ layers # <<>>
    /\ layers' = Append(layers, {})
    /\ call' = "begin_nested"
    /\ UNCHANGED durable

Write(row) ==
    /\ layers # <<>>
    /\ row \notin Visible
    /\ layers' = Append(Below(layers), Top(layers) \cup {row})
    /\ call' = "write"
    /\ UNCHANGED durable

\* The inner level becomes part of the one around it.
Release ==
    /\ Len(layers) > 1
    /\ layers' = Append(Below(Below(layers)), Top(Below(layers)) \cup Top(layers))
    /\ call' = "release"
    /\ UNCHANGED durable

RollbackNested ==
    /\ Len(layers) > 1
    /\ layers' = Below(layers)
    /\ call' = "rollback_nested"
    /\ UNCHANGED durable

Commit ==
    /\ layers # <<>>
    /\ durable' = Visible
    /\ layers' = <<>>
    /\ call' = "commit"

Rollback ==
    /\ layers # <<>>
    /\ layers' = <<>>
    /\ call' = "rollback"
    /\ UNCHANGED durable

Next ==
    \/ Begin
    \/ BeginNested
    \/ \E row \in Rows : Write(row)
    \/ Release
    \/ RollbackNested
    \/ Commit
    \/ Rollback

Spec == Init /\ [][Next]_vars
=============================================================================
