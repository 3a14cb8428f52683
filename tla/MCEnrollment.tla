---------------------------- MODULE MCEnrollment ----------------------------
(***************************************************************************)
(* Paths for Enrollment, and where they lead.                              *)
(***************************************************************************)
EXTENDS Enrollment

MCNamespaces == {<<"a">>, <<"a", "/", "b">>}
MCProjects ==
    {<<"a">>, <<"a", "a">>, <<"a", "/", "b">>, <<"a", "/", ".", ".", "/", "b">>}

\* The directory a path leads to from the root, segment by segment.
Walk(dir, seg) ==
    CASE seg \in {<<>>, <<".">>} -> dir
      [] seg = <<".", ".">> -> SubSeq(dir, 1, Len(dir) - 1)
      [] OTHER -> Append(dir, seg)

Location(path) ==
    LET step1(s, c) == IF c = "/" THEN [dir |-> Walk(s.dir, s.seg), seg |-> <<>>]
                       ELSE [s EXCEPT !.seg = Append(@, c)]
        last == FoldLeft(step1, [dir |-> <<>>, seg |-> <<>>], path)
    IN  Walk(last.dir, last.seg)

\* A trusted project lies in the namespace of its org: resolved segment by
\* segment, its path leads to the namespace or below (within, cert.rs:173).
ProjectInNamespace ==
    Verdict = "Ok" =>
        IsPrefix(Location(chain[1].org_namespace), Location(token.claims.project))
=============================================================================
