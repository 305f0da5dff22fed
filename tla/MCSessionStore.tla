--------------------------- MODULE MCSessionStore ---------------------------
(***************************************************************************)
(* Model-checking instance of SessionStore: two tasks and two keys, one of *)
(* which contains a character sanitize_key replaces ("a:" is stored as    *)
(* a_.json), or that key alone for list().                                *)
(***************************************************************************)
EXTENDS SessionStore, TLC

\* "a:" and "b": distinct files a_.json and b.json.
MCKeys == {<<"a", ":">>, <<"b">>}

\* "a:" alone, for the single-task list() run.
MCListKeys == {<<"a", ":">>}

\* Tasks are interchangeable.
MCSymmetry == Permutations(Tasks)

=============================================================================
