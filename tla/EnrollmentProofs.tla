-------------------------- MODULE EnrollmentProofs --------------------------
(***************************************************************************)
(* Who is let in and who is kept out, for any keys, namespaces, projects   *)
(* and clock.                                                              *)
(***************************************************************************)
EXTENDS MCEnrollment, OrderLemmas, SequenceTheorems, TLAPS

LEMMA EnrollmentInit == Init => IInv
BY ClockAssumption, PeerAssumption, NoneAssumption DEF Init, IInv, TypeOK, OpenIsAdmitted

\* A chain is empty or has a member, an org and an issuing certificate.
LEMMA ChainLinks ==
    ASSUME chain \in Chains, chain # <<>>
    PROVE  /\ chain = <<chain[1], chain[2], chain[3]>>
           /\ chain[1] \in MemberCerts /\ chain[2] \in OrgCerts /\ chain[3] \in IssuingCerts
<1>1. PICK m \in MemberCerts, o \in OrgCerts, i \in IssuingCerts : chain = <<m, o, i>>
      BY DEF Chains
<1> QED
    BY <1>1

LEMMA RestartTypes ==
    ASSUME TypeOK, Restart PROVE TypeOK'
<1>1. CASE UNCHANGED chain
      BY <1>1 DEF Restart, TypeOK, session
<1>2. CASE chain # <<>> /\ UNCHANGED token
      <2>1. chain' \in Chains
            BY <1>2, ChainLinks DEF Restart, TypeOK, Chains
      <2> QED
          BY <1>2, <2>1 DEF Restart, TypeOK, session
<1> QED
    BY <1>1, <1>2 DEF Restart

LEMMA EnrollmentStep == IInv /\ [Next]_vars => IInv'
<1> SUFFICES ASSUME IInv, [Next]_vars PROVE IInv'
    OBVIOUS
<1> USE DEF IInv, TypeOK, OpenIsAdmitted, files, session
<1>1. CASE Connect
      BY <1>1, PeerAssumption DEF Connect, VerifyServerCert
<1>2. CASE Prove
      BY <1>2 DEF Prove
<1>3. CASE Answer
      BY <1>3 DEF Answer, Accepts
<1>4. CASE Finish
      BY <1>4 DEF Finish, Understood
<1>5. CASE Drop
      BY <1>5, NoneAssumption DEF Drop
<1>6. CASE Restart
      <2>1. TypeOK'
            BY <1>6, RestartTypes
      <2> QED
          BY <1>6, <2>1 DEF Restart
<1>7. CASE AddRoot
      BY <1>7 DEF AddRoot
<1>8. CASE Tick
      BY <1>8 DEF Tick
<1>9. CASE UNCHANGED vars
      BY <1>9 DEF vars, ProofTranscript
<1> QED
    BY <1>1, <1>2, <1>3, <1>4, <1>5, <1>6, <1>7, <1>8, <1>9 DEF Next

LEMMA EnrollmentInductive == Spec => []IInv
BY EnrollmentInit, EnrollmentStep, PTL DEF Spec

\* The session is well formed, and bound to the pinned certificate.
THEOREM EnrollmentTypeCorrect == Spec => []TypeOK
BY EnrollmentInductive, PTL DEF IInv

\* Peer::connect returns Ok only on a connection the relay let in.
THEOREM EnrollmentOpenIsAdmitted == Spec => []OpenIsAdmitted
BY EnrollmentInductive, PTL DEF IInv

-----------------------------------------------------------------------------
(* What verify_chain finds out. *)

\* Every certificate says what it is, whoever edited its namespace.
LEMMA LinkRoles ==
    /\ \A c \in MemberCerts : c.role = "member" /\ c.sig.over.role = "member"
    /\ \A c \in OrgCerts : c.role = c.sig.over.role
    /\ \A c \in IssuingCerts : c.role = "issuing" /\ c.sig.over.role = "issuing"
    /\ \A c \in MemberCerts \cup OrgCerts \cup IssuingCerts :
           c.sig = Signed(c.sig.by, c.sig.over) /\ c.exp \in Exps
<1>1. \A key, subject, role, ns, exp, id :
          LET c == Issue(key, subject, role, ns, exp, id)
          IN  /\ c.role = role /\ c.sig.over.role = role /\ c.exp = exp
              /\ c.sig = Signed(c.sig.by, c.sig.over)
      BY DEF Issue, Cert, Signed, CanonicalCert
<1>2. \A c \in SignedOrgCerts : /\ c.role = c.sig.over.role /\ c.exp \in Exps
                               /\ c.sig = Signed(c.sig.by, c.sig.over)
      BY <1>1 DEF SignedOrgCerts
<1>3. \A c \in SignedOrgCerts, ns \in Namespaces :
          /\ [c EXCEPT !.org_namespace = ns].role = c.role
          /\ [c EXCEPT !.org_namespace = ns].sig = c.sig
          /\ [c EXCEPT !.org_namespace = ns].exp = c.exp
      BY DEF SignedOrgCerts, Issue, Cert
<1>4. \A c \in MemberCerts : /\ c.role = "member" /\ c.sig.over.role = "member"
                             /\ c.sig = Signed(c.sig.by, c.sig.over) /\ c.exp \in Exps
      BY <1>1 DEF MemberCerts
<1>5. ASSUME NEW c \in OrgCerts
      PROVE  /\ c.role = c.sig.over.role /\ c.exp \in Exps
             /\ c.sig = Signed(c.sig.by, c.sig.over)
      <2>1. CASE c \in SignedOrgCerts
            BY <2>1, <1>2
      <2>2. CASE c \notin SignedOrgCerts
            <3>1. PICK d \in SignedOrgCerts, ns \in Namespaces :
                      c = [d EXCEPT !.org_namespace = ns]
                  BY <2>2 DEF OrgCerts
            <3>2. c.role = d.role /\ c.sig = d.sig /\ c.exp = d.exp
                  BY <3>1, <1>3
            <3> QED
                BY <3>2, <1>2
      <2> QED
          BY <2>1, <2>2
<1>6. \A c \in IssuingCerts : /\ c.role = "issuing" /\ c.sig.over.role = "issuing"
                              /\ c.sig = Signed(c.sig.by, c.sig.over) /\ c.exp \in Exps
      BY <1>1 DEF IssuingCerts
<1> QED
    BY <1>4, <1>5, <1>6

\* What verify_chain trusts is vouched for, link by link, from a root down.
LEMMA TrustedIsEntitled ==
    ASSUME NEW t, TypeOK, token # NONE, VerifyChain(token, chain, roots, t) = "Ok"
    PROVE  Entitled(t)
<1> DEFINE m == chain[1]
           o == chain[2]
           i == chain[3]
<1>1. Len(chain) = 3 /\ chain # <<>>
      BY DEF VerifyChain, TypeOK, Chains
<1>2. /\ chain = <<m, o, i>>
      /\ m \in MemberCerts /\ o \in OrgCerts /\ i \in IssuingCerts
      BY <1>1, ChainLinks DEF TypeOK
<1>3. \A n \in 1..3 : chain[n].role = Roles[n] /\ ~Expired(chain[n].exp, t)
      BY <1>1 DEF VerifyChain
<1>4. /\ VerifyCertSig(m, o.subject_pub) /\ VerifyCertSig(o, i.subject_pub)
      /\ roots[i.issuer_id] # NONE /\ VerifyCertSig(i, roots[i.issuer_id])
      BY <1>1 DEF VerifyChain
<1>5. /\ m.org_namespace = o.org_namespace
      /\ Verify(token, m.subject_pub) /\ ~Expired(token.claims.exp, t)
      /\ Within(token.claims.project, m.org_namespace)
      BY <1>1 DEF VerifyChain
<1>6. m.role = "member" /\ o.role = "org" /\ i.role = "issuing"
      BY <1>3 DEF Roles
<1>7. \A n \in 1..3 : chain[n].sig.over.exp = chain[n].exp
      BY <1>2, <1>4 DEF VerifyCertSig, Signed, CanonicalCert
<1>8. m.sig \in Statements(t) /\ o.sig \in Statements(t) /\ i.sig \in Statements(t)
      BY <1>2, <1>3, <1>7 DEF Statements
<1>9. /\ i.sig.by = roots[i.issuer_id] /\ i.sig.over.issuer_id = i.issuer_id
      /\ i.sig.over.subject_pub = i.subject_pub /\ i.sig.over.role = i.role
      BY <1>4 DEF VerifyCertSig, Signed, CanonicalCert
<1>10. /\ o.sig.by = i.subject_pub /\ o.sig.over.subject_pub = o.subject_pub
       /\ o.sig.over.role = o.role /\ o.sig.over.org_namespace = o.org_namespace
      BY <1>4 DEF VerifyCertSig, Signed, CanonicalCert
<1>11. /\ m.sig.by = o.subject_pub /\ m.sig.over.subject_pub = m.subject_pub
       /\ m.sig.over.role = m.role /\ m.sig.over.org_namespace = m.org_namespace
      BY <1>4 DEF VerifyCertSig, Signed, CanonicalCert
<1>12. /\ token.sig.by = m.subject_pub /\ token.sig.over.exp = token.claims.exp
       /\ token.sig.over.project = token.claims.project
      BY <1>5 DEF Verify, Signed, Canonical
<1> HIDE DEF m, o, i
<1> QED
    BY <1>4, <1>5, <1>6, <1>8, <1>9, <1>10, <1>11, <1>12 DEF Entitled

\* The proof on its way is the one the relay wants exactly if it is made with
\* the key of the claims.
LEMMA ProofFits ==
    ASSUME IInv, step = "proved"
    PROVE  Accepts(now) <=>
               \/ token = NONE
               \/ Verdict = "Ok" /\ token.claims.pub = Self
<1>1. binding = Pinned /\ proof = Signed(Self, ProofTranscript(token, Pinned))
      BY DEF IInv, TypeOK
<1> QED
    BY <1>1 DEF Accepts, Verdict, Signed, ProofTranscript


LEMMA AdmittedStep ==
    ASSUME IInv, [Next]_vars, admitted', ~admitted PROVE Deserving(now)
<1>1. Answer /\ Accepts(now)
      BY DEF Next, vars, session, Connect, Prove, Answer, Finish, Drop, Restart,
             AddRoot, Tick
<1>2. token = NONE \/ (Verdict = "Ok" /\ token.claims.pub = Self)
      BY <1>1, ProofFits DEF Answer
<1>3. CASE token # NONE
      BY <1>2, <1>3, TrustedIsEntitled DEF IInv, Verdict, Deserving
<1> QED
    BY <1>3 DEF Deserving

\* Nobody is let in who is not vouched for from a root down and holds the key.
THEOREM EnrollmentAdmittedForCause == Spec => AdmittedForCause
<1>1. IInv /\ [Next]_vars => [admitted' /\ ~admitted => Deserving(now)]_vars
      BY AdmittedStep
<1>2. []IInv /\ [][Next]_vars => AdmittedForCause
      BY <1>1, PTL DEF AdmittedForCause
<1> QED
    BY <1>2, EnrollmentInductive, PTL DEF Spec

-----------------------------------------------------------------------------
(* What verify_chain turns away. *)

\* The empty path is not clean, so nothing lies within the empty namespace.
LEMMA EmptyIsUnclean == ~CleanPath(<<>>)
<1>1. Bounds(<<>>) = {0, 1}
      BY DEF Bounds
<1>2. Adjacent(<<>>, 0, 1)
      BY <1>1 DEF Adjacent
<1>3. SubSeq(<<>>, 1, 0) = <<>>
      OBVIOUS
<1> QED
    BY <1>1, <1>2, <1>3 DEF CleanPath

\* Whoever is vouched for with unedited files has what verify_chain looks for.
LEMMA EntitledIsTrusted ==
    ASSUME NEW t, TypeOK, token # NONE, Intact, Entitled(t)
    PROVE  VerifyChain(token, chain, roots, t) = "Ok"
<1>1. PICK root, org, member \in Statements(t) :
        /\ root.over.role = "issuing"
        /\ root.by # NONE /\ root.by = roots[root.over.issuer_id]
        /\ org.over.role = "org" /\ org.by = root.over.subject_pub
        /\ member.over.role = "member" /\ member.by = org.over.subject_pub
        /\ member.over.org_namespace = org.over.org_namespace
        /\ token.sig.by = member.over.subject_pub
        /\ ~Expired(token.sig.over.exp, t)
        /\ Within(token.sig.over.project, member.over.org_namespace)
      BY DEF Entitled
<1>2. chain # <<>>
      BY <1>1 DEF Statements
<1> DEFINE m == chain[1]
           o == chain[2]
           i == chain[3]
<1>3. /\ chain = <<m, o, i>>
      /\ m \in MemberCerts /\ o \in OrgCerts /\ i \in IssuingCerts
      BY <1>2, ChainLinks DEF TypeOK
<1>4. /\ m.sig.over = CanonicalCert(m) /\ o.sig.over = CanonicalCert(o)
      /\ i.sig.over = CanonicalCert(i)
      BY <1>3 DEF Intact
<1>5. Statements(t) \subseteq {m.sig, o.sig, i.sig}
      BY <1>3 DEF Statements
<1>6. m.sig.over.role = "member" /\ i.sig.over.role = "issuing"
      BY <1>3, LinkRoles
<1> HIDE DEF m, o, i
<1>7. org = o.sig
      BY <1>1, <1>5, <1>6
<1>8. root = i.sig /\ member = m.sig
      BY <1>1, <1>5, <1>6, <1>7
<1>9. /\ ~Expired(m.sig.over.exp, t) /\ ~Expired(o.sig.over.exp, t)
      /\ ~Expired(i.sig.over.exp, t)
      BY <1>7, <1>8 DEF Statements
<1>10. /\ m.role = "member" /\ o.role = "org" /\ i.role = "issuing"
       /\ ~Expired(m.exp, t) /\ ~Expired(o.exp, t) /\ ~Expired(i.exp, t)
      BY <1>1, <1>4, <1>6, <1>7, <1>9 DEF CanonicalCert
<1>11. /\ VerifyCertSig(m, o.subject_pub) /\ VerifyCertSig(o, i.subject_pub)
       /\ roots[i.issuer_id] # NONE /\ VerifyCertSig(i, roots[i.issuer_id])
      <2>1. /\ m.sig = Signed(m.sig.by, m.sig.over) /\ o.sig = Signed(o.sig.by, o.sig.over)
            /\ i.sig = Signed(i.sig.by, i.sig.over)
            BY <1>3, LinkRoles
      <2>2. /\ o.sig.over.subject_pub = o.subject_pub
            /\ i.sig.over.subject_pub = i.subject_pub /\ i.sig.over.issuer_id = i.issuer_id
            BY <1>4 DEF CanonicalCert
      <2> QED
          BY <1>1, <1>4, <1>7, <1>8, <2>1, <2>2 DEF VerifyCertSig
<1>12. /\ m.sig.over.org_namespace = m.org_namespace
       /\ o.sig.over.org_namespace = o.org_namespace
       /\ m.sig.over.subject_pub = m.subject_pub
      BY <1>4 DEF CanonicalCert
<1>13. m.org_namespace # <<>> /\ m.org_namespace = o.org_namespace
      BY <1>1, <1>7, <1>8, <1>12, EmptyIsUnclean DEF Within
<1>14. /\ Verify(token, m.subject_pub) /\ ~Expired(token.claims.exp, t)
       /\ Within(token.claims.project, m.org_namespace)
      <2>1. token \in Tokens
            BY DEF TypeOK
      <2>2. /\ token.sig = Signed(token.sig.by, Canonical(token.claims))
            /\ token.sig.over.exp = token.claims.exp
            /\ token.sig.over.project = token.claims.project
            BY <2>1 DEF Tokens, Signed, Canonical
      <2> QED
          BY <1>1, <1>8, <1>12, <2>2 DEF Verify
<1>15. \A n \in 1..3 : chain[n].role = Roles[n] /\ ~Expired(chain[n].exp, t)
      BY <1>10 DEF Roles, m, o, i
<1>16. Len(chain) = 3
      BY <1>3
<1> QED
    BY <1>11, <1>13, <1>14, <1>15, <1>16 DEF VerifyChain, m, o, i

LEMMA RefusedStep ==
    ASSUME IInv, [Next]_vars, answer' = "refused", answer # "refused"
    PROVE  ~(Intact /\ Deserving(now))
<1>1. step = "proved" /\ ~Accepts(now)
      BY NoneAssumption
      DEF Next, vars, session, Connect, Prove, Answer, Finish, Drop, Restart, AddRoot, Tick
<1>2. token # NONE /\ ~(Verdict = "Ok" /\ token.claims.pub = Self)
      BY <1>1, ProofFits
<1> QED
    BY <1>2, EntitledIsTrusted DEF IInv, Verdict, Deserving

\* Nobody is refused who is vouched for, has the files as they were issued and
\* holds the key.
THEOREM EnrollmentRefusedForCause == Spec => RefusedForCause
<1>1. IInv /\ [Next]_vars
          => [answer' = "refused" /\ answer # "refused" => ~(Intact /\ Deserving(now))]_vars
      BY RefusedStep
<1>2. []IInv /\ [][Next]_vars => RefusedForCause
      BY <1>1, PTL DEF RefusedForCause
<1> QED
    BY <1>2, EnrollmentInductive, PTL DEF Spec

\* Time only adds to what has expired.
LEMMA ExpiredStep ==
    ASSUME IInv, IInv', [Next]_vars, Verdict = "Expired", UNCHANGED files
    PROVE  Verdict' # "Ok"
<1>1. now <= now' /\ now \in Int /\ now' \in Int
      BY DEF IInv, TypeOK, Next, vars, Connect, Prove, Answer, Finish, Drop, Restart,
             AddRoot, Tick
<1>2. token # NONE /\ token' = token /\ chain' = chain
      BY DEF Verdict, files
<1>3. chain # <<>> /\ Len(chain) = 3
      BY <1>2 DEF Verdict, VerifyChain, IInv, TypeOK, Chains
<1>4. token.claims.exp \in Int /\ \A n \in 1..3 : chain[n].exp \in Int
      <2>1. \A c \in MemberCerts \cup OrgCerts \cup IssuingCerts : c.exp \in Exps
            BY LinkRoles
      <2>2. \A n \in 1..3 : chain[n].exp \in Exps
            BY <1>3, <2>1, ChainLinks DEF IInv, TypeOK
      <2>3. token.claims.exp \in Exps
            BY <1>2 DEF IInv, TypeOK, Tokens, AllClaims
      <2> QED
          BY <2>2, <2>3, ClockAssumption
<1>5. \/ \E n \in 1..3 : Expired(chain[n].exp, now)
      \/ Expired(token.claims.exp, now)
      BY <1>2, <1>3 DEF Verdict, VerifyChain
<1>6. \/ \E n \in 1..3 : Expired(chain[n].exp, now')
      \/ Expired(token.claims.exp, now')
      BY <1>1, <1>4, <1>5 DEF Expired
<1>7. VerifyChain(token, chain, roots', now') # "Ok"
      BY <1>3, <1>6 DEF VerifyChain
<1> QED
    BY <1>2, <1>7 DEF Verdict

\* An enrollment that has expired, or stands on a certificate that has, is
\* never taken again, whatever roots the relay gets.
THEOREM EnrollmentExpiredStaysOut == Spec => ExpiredStaysOut
<1>1. IInv /\ IInv' /\ [Next]_vars
          => [Verdict = "Expired" /\ UNCHANGED files => Verdict' # "Ok"]_vars
      BY ExpiredStep
<1>2. []IInv /\ [][Next]_vars => ExpiredStaysOut
      BY <1>1, PTL DEF ExpiredStaysOut
<1> QED
    BY <1>2, EnrollmentInductive, PTL DEF Spec

-----------------------------------------------------------------------------
(* Where a trusted project leads                                            *)

\* Location reads a path one character at a time: the directory reached so far
\* and the segment being read.
Begin == [dir |-> <<>>, seg |-> <<>>]
ReadChar(s, c) ==
    IF c = "/" THEN [dir |-> Walk(s.dir, s.seg), seg |-> <<>>]
    ELSE [s EXCEPT !.seg = Append(@, c)]

\* st is what has been read after each of the characters of path.
IsReading(st, path) ==
    /\ st[0] = Begin
    /\ \A k \in 1..Len(path) : st[k] = ReadChar(st[k - 1], path[k])

\* The recursion by which FoldLeft is defined, over sets of positions.
FoldStep(path, g, T) == IF T = {} THEN Begin ELSE ReadChar(g[T \ {Max(T)}], path[Max(T)])

LEMMA LocationReads ==
    ASSUME NEW path \in Seq(STRING)
    PROVE  \E st : IsReading(st, path) /\ Location(path) = Walk(st[Len(path)].dir, st[Len(path)].seg)
<1> DEFINE n == Len(path)
           Partial(g, k) == g = [T \in SUBSET (1..k) |-> FoldStep(path, g, T)]
           Reached == {k \in 0..n : \E g : Partial(g, k)}
<1>1. n \in Nat /\ DOMAIN path = 1..n
      OBVIOUS
<1>2. ASSUME NEW k \in Nat, NEW T, T \subseteq 1..k, T # {}
      PROVE  Max(T) \in T /\ \A y \in T : y <= Max(T)
      <2>1. T \subseteq Nat /\ \A y \in T : y <= k
            BY <1>2
      <2> QED
          BY <1>2, <2>1, MaxIsGreatest
<1>3. 0 \in Reached
      <2> DEFINE g == [T \in SUBSET (1..0) |-> Begin]
      <2>1. \A T \in SUBSET (1..0) : T = {}
            OBVIOUS
      <2>2. Partial(g, 0)
            BY <2>1 DEF FoldStep
      <2>3. 0 \in 0..n
            BY <1>1
      <2> HIDE DEF Partial, g
      <2> QED
          BY <2>2, <2>3
<1>4. ASSUME NEW k \in 0..(n - 1), k \in Reached PROVE k + 1 \in Reached
      <2>1. PICK g : Partial(g, k)
            BY <1>4
      <2> DEFINE h == [T \in SUBSET (1..(k + 1)) |->
                          IF T \subseteq 1..k THEN g[T] ELSE FoldStep(path, g, T)]
      <2>2. ASSUME NEW T \in SUBSET (1..(k + 1)) PROVE h[T] = FoldStep(path, h, T)
            <3>1. CASE T = {}
                  BY <2>1, <3>1 DEF FoldStep
            <3>2. CASE T # {}
                  <4>1. Max(T) \in T /\ (\A y \in T : y <= Max(T)) /\ k \in Nat /\ k + 1 \in Nat
                        <5>1. k \in Nat /\ k + 1 \in Nat
                              BY <1>1
                        <5>2. T \subseteq 1..(k + 1)
                              OBVIOUS
                        <5> QED
                            BY <5>1, <5>2, <3>2, <1>2
                  <4>2. T \ {Max(T)} \subseteq 1..k
                        <5>1. ASSUME NEW y \in T, y # Max(T) PROVE y \in 1..k
                              <6>1. y \in 1..(k + 1) /\ Max(T) \in 1..(k + 1) /\ y <= Max(T)
                                    BY <4>1
                              <6> HIDE DEF h
                              <6> QED
                                  BY <4>1, <5>1, <6>1
                        <5> QED
                            BY <5>1
                  <4>3. T \ {Max(T)} \in SUBSET (1..(k + 1))
                        OBVIOUS
                  <4>4. h[T \ {Max(T)}] = g[T \ {Max(T)}]
                        BY <4>2, <4>3
                  <4>5. FoldStep(path, h, T) = FoldStep(path, g, T)
                        BY <3>2, <4>4 DEF FoldStep
                  <4>6. T \subseteq 1..k => g[T] = FoldStep(path, g, T)
                        BY <2>1
                  <4> QED
                      BY <4>5, <4>6
            <3> QED
                BY <3>1, <3>2
      <2>3. Partial(h, k + 1)
            BY <2>2
      <2>4. k + 1 \in 0..n
            BY <1>1
      <2> HIDE DEF Partial
      <2> QED
          BY <2>3, <2>4
<1>5. PICK g : Partial(g, n)
      <2>1. 0..n \subseteq Reached
            <3> HIDE DEF Reached
            <3> QED
                BY <1>1, <1>3, <1>4, Climb
      <2>2. n \in 0..n
            BY <1>1
      <2> QED
          BY <2>1, <2>2
<1> DEFINE iter == CHOOSE f : f = [T \in SUBSET (1..n) |-> FoldStep(path, f, T)]
           st == [k \in 0..n |-> iter[1..k]]
<1>6. iter = [T \in SUBSET (1..n) |-> FoldStep(path, iter, T)]
      BY <1>5
<1>7. Location(path) = Walk(iter[1..n].dir, iter[1..n].seg)
      BY <1>1 DEF Location, FoldLeft, MapThenFoldSet, FoldStep, ReadChar, Begin
<1> HIDE DEF iter
<1>8. st[0] = Begin
      <2>1. 1..0 = {} /\ 1..0 \in SUBSET (1..n) /\ 0 \in 0..n
            BY <1>1
      <2> QED
          BY <1>6, <2>1 DEF FoldStep
<1>9. ASSUME NEW k \in 1..n PROVE st[k] = ReadChar(st[k - 1], path[k])
      <2>1. 1..k \in SUBSET (1..n) /\ 1..k # {} /\ k \in Nat /\ k \in 0..n /\ k - 1 \in 0..n
            <3>1. k \in Nat /\ k >= 1 /\ k <= n
                  BY <1>1
            <3>2. \A y \in 1..k : y \in 1..n
                  BY <1>1, <3>1
            <3>3. 1 \in 1..k
                  BY <3>1
            <3> QED
                BY <1>1, <3>1, <3>2, <3>3
      <2>2. Max(1..k) = k
            <3>1. Max(1..k) \in 1..k /\ \A y \in 1..k : y <= Max(1..k)
                  BY <1>2, <2>1
            <3>2. k \in 1..k
                  BY <2>1
            <3> QED
                BY <2>1, <3>1, <3>2
      <2>3. (1..k) \ {k} = 1..(k - 1)
            BY <2>1
      <2>4. iter[1..k] = ReadChar(iter[(1..k) \ {k}], path[k])
            BY <1>6, <2>1, <2>2 DEF FoldStep
      <2> QED
          BY <2>1, <2>3, <2>4
<1>10. st[n] = iter[1..n]
      BY <1>1
<1> HIDE DEF st
<1> QED
    BY <1>7, <1>8, <1>9, <1>10 DEF IsReading

LEMMA WalkType ==
    ASSUME NEW dir \in Seq(Seq(STRING)), NEW seg \in Seq(STRING)
    PROVE  Walk(dir, seg) \in Seq(Seq(STRING))
<1>1. CASE seg \in {<<>>, <<".">>}
      <2>1. <<".", ".">> # <<>> /\ <<".", ".">> # <<".">>
            OBVIOUS
      <2>2. Walk(dir, seg) = dir
            BY <1>1, <2>1 DEF Walk
      <2> QED
          BY <2>2
<1>2. CASE seg = <<".", ".">>
      <2>1. <<".", ".">> # <<>> /\ <<".", ".">> # <<".">>
            OBVIOUS
      <2>2. SubSeq(dir, 1, Len(dir) - 1) \in Seq(Seq(STRING))
            BY SubSeqProperties
      <2> QED
          BY <1>2, <2>1, <2>2 DEF Walk
<1>3. CASE seg \notin {<<>>, <<".">>, <<".", ".">>}
      <2>1. Append(dir, seg) \in Seq(Seq(STRING))
            BY AppendProperties
      <2> QED
          BY <1>3, <2>1 DEF Walk
<1> QED
    BY <1>1, <1>2, <1>3

\* What has been read of a path is a directory and a segment.
LEMMA ReadingType ==
    ASSUME NEW path \in Seq(STRING), NEW st, IsReading(st, path), NEW k \in 0..Len(path)
    PROVE  /\ st[k] = [dir |-> st[k].dir, seg |-> st[k].seg]
           /\ st[k].dir \in Seq(Seq(STRING)) /\ st[k].seg \in Seq(STRING)
<1> DEFINE n == Len(path)
           Typed(s) == s = [dir |-> s.dir, seg |-> s.seg] /\ s.dir \in Seq(Seq(STRING))
                       /\ s.seg \in Seq(STRING)
           Reached == {m \in 0..n : Typed(st[m])}
<1>1. n \in Nat
      OBVIOUS
<1>2. 0 \in Reached
      <2>1. st[0] = [dir |-> <<>>, seg |-> <<>>]
            BY DEF IsReading, Begin
      <2>2. <<>> \in Seq(Seq(STRING)) /\ <<>> \in Seq(STRING)
            OBVIOUS
      <2>3. Typed(st[0])
            BY <2>1, <2>2
      <2> HIDE DEF Typed
      <2> QED
          BY <1>1, <2>3
<1>3. ASSUME NEW m \in 0..(n - 1), m \in Reached PROVE m + 1 \in Reached
      <2>1. m + 1 \in 1..n /\ (m + 1) - 1 = m /\ m + 1 \in 0..n
            BY <1>1
      <2>2. st[m + 1] = ReadChar(st[m], path[m + 1])
            BY <2>1 DEF IsReading
      <2>3. path[m + 1] \in STRING
            BY <2>1
      <2>4. PICK dir \in Seq(Seq(STRING)), seg \in Seq(STRING) : st[m] = [dir |-> dir, seg |-> seg]
            BY <1>3
      <2>6. Walk(dir, seg) \in Seq(Seq(STRING))
            BY WalkType
      <2>7. Typed(ReadChar(st[m], path[m + 1]))
            <3>1. CASE path[m + 1] = "/"
                  BY <3>1, <2>4, <2>6 DEF ReadChar
            <3>2. CASE path[m + 1] # "/"
                  <4>1. Append(seg, path[m + 1]) \in Seq(STRING)
                        BY <2>3, AppendProperties
                  <4>2. ReadChar(st[m], path[m + 1])
                            = [dir |-> dir, seg |-> Append(seg, path[m + 1])]
                        <5>1. ReadChar(st[m], path[m + 1])
                                  = [st[m] EXCEPT !.seg = Append(@, path[m + 1])]
                              BY <3>2 DEF ReadChar
                        <5>2. \A e : [[dir |-> dir, seg |-> seg] EXCEPT !.seg = e]
                                         = [dir |-> dir, seg |-> e]
                              OBVIOUS
                        <5>3. st[m].seg = seg
                              BY <2>4
                        <5> QED
                            BY <2>4, <5>1, <5>2, <5>3
                  <4> QED
                      BY <4>1, <4>2
            <3> QED
                BY <3>1, <3>2
      <2> HIDE DEF Typed
      <2> QED
          BY <2>1, <2>2, <2>7
<1>4. 0..n \subseteq Reached
      <2> HIDE DEF Reached
      <2> QED
          BY <1>1, <1>2, <1>3, Climb
<1> QED
    BY <1>4

\* Paths that begin alike are read alike so far.
LEMMA SameReading ==
    ASSUME NEW ns \in Seq(STRING), NEW rd, IsReading(rd, ns),
           NEW path \in Seq(STRING), NEW st, IsReading(st, path),
           Len(ns) <= Len(path), \A k \in 1..Len(ns) : path[k] = ns[k]
    PROVE  st[Len(ns)] = rd[Len(ns)]
<1> DEFINE n == Len(ns)
           Reached == {m \in 0..n : st[m] = rd[m]}
<1>1. n \in Nat /\ Len(path) \in Nat
      OBVIOUS
<1>2. 0 \in Reached
      BY <1>1 DEF IsReading
<1>3. ASSUME NEW m \in 0..(n - 1), m \in Reached PROVE m + 1 \in Reached
      <2>1. /\ m + 1 \in 1..n /\ m + 1 \in 1..Len(path)
            /\ (m + 1) - 1 = m /\ m + 1 \in 0..n
            BY <1>1
      <2>2. st[m + 1] = ReadChar(st[m], path[m + 1]) /\ rd[m + 1] = ReadChar(rd[m], ns[m + 1])
            BY <2>1 DEF IsReading
      <2> QED
          BY <1>3, <2>1, <2>2
<1>4. 0..n \subseteq Reached
      <2> HIDE DEF Reached
      <2> QED
          BY <1>1, <1>2, <1>3, Climb
<1>5. n \in 0..n
      BY <1>1
<1> QED
    BY <1>4, <1>5

\* A segment of a clean path is a name: it leads one directory down.
LEMMA CleanSegment ==
    ASSUME NEW path \in Seq(STRING), CleanPath(path),
           NEW i \in DOMAIN path, path[i] = "/",
           NEW j \in Nat, i < j,
           j = Len(path) + 1 \/ (j \in DOMAIN path /\ path[j] = "/"),
           \A k \in (i + 1)..(j - 1) : path[k] # "/",
           NEW dir
    PROVE  Walk(dir, SubSeq(path, i + 1, j - 1)) = Append(dir, SubSeq(path, i + 1, j - 1))
<1>1. i \in Nat /\ Len(path) \in Nat /\ DOMAIN path = 1..Len(path)
      OBVIOUS
<1>2. i \in Bounds(path) /\ j \in Bounds(path)
      BY DEF Bounds
<1>3. ASSUME NEW k \in Bounds(path) PROVE k <= i \/ j <= k
      <2>1. k = 0 \/ k = Len(path) + 1 \/ (k \in 1..Len(path) /\ path[k] = "/")
            BY <1>1 DEF Bounds
      <2>2. j <= Len(path) + 1
            BY <1>1
      <2>3. k \in Nat /\ (k \in (i + 1)..(j - 1) => path[k] # "/")
            BY <1>1, <2>1
      <2>4. CASE k \in 1..Len(path) /\ path[k] = "/"
            BY <1>1, <2>3, <2>4
      <2> QED
          BY <1>1, <2>1, <2>2, <2>4
<1>4. Adjacent(path, i, j)
      BY <1>3 DEF Adjacent
<1>5. SubSeq(path, i + 1, j - 1) \notin {<<>>, <<".">>, <<".", ".">>}
      BY <1>2, <1>4 DEF CleanPath
<1> QED
    BY <1>5 DEF Walk

LEMMA SubSeqGrows ==
    ASSUME NEW S, NEW s \in Seq(S), NEW i \in 1..Len(s), NEW k \in i..(Len(s) - 1)
    PROVE  Append(SubSeq(s, i + 1, k), s[k + 1]) = SubSeq(s, i + 1, k + 1)
<1>1. Len(s) \in Nat /\ i \in Nat /\ k \in Nat /\ i <= k /\ k + 1 <= Len(s) /\ 1 <= i
      OBVIOUS
<1> DEFINE short == SubSeq(s, i + 1, k)
           long == SubSeq(s, i + 1, k + 1)
<1>2. /\ short = [m \in 1..(k - i) |-> s[i + m]]
      /\ short \in Seq(S) /\ Len(short) = k - i
      <2>1. short \in Seq(S) /\ Len(short) = k - i
            BY <1>1, SubSeqProperties
      <2>2. \A m \in 1..(k - i) : short[m] = s[i + m]
            BY <1>1, SubSeqProperties
      <2> QED
          BY <2>1, <2>2
<1>3. /\ long \in Seq(S) /\ Len(long) = (k + 1) - i
      /\ \A m \in 1..((k + 1) - i) : long[m] = s[i + m]
      BY <1>1, SubSeqProperties
<1> HIDE DEF short, long
<1> DEFINE both == Append(short, s[k + 1])
<1>4. both \in Seq(S) /\ Len(both) = (k - i) + 1 /\ s[k + 1] \in S
      BY <1>1, <1>2
<1>5. ASSUME NEW m \in 1..((k + 1) - i) PROVE both[m] = long[m]
      <2>1. CASE m = (k + 1) - i
            BY <1>1, <1>2, <1>3, <2>1
      <2>2. CASE m # (k + 1) - i
            <3>1. m \in 1..(k - i)
                  BY <1>1, <2>2
            <3> QED
                BY <1>1, <1>2, <1>3, <3>1
      <2> QED
          BY <2>1, <2>2
<1> HIDE DEF both
<1>6. both = long
      <2>1. Len(both) = Len(long) /\ \A m \in 1..Len(both) : both[m] = long[m]
            BY <1>1, <1>3, <1>4, <1>5
      <2> QED
          BY <1>3, <1>4, <2>1, SeqEqual
<1> QED
    BY <1>6 DEF both, short, long

\* A prefix stays one whatever is appended.
LEMMA PrefixGrows ==
    ASSUME NEW S, NEW a \in Seq(S), NEW b \in Seq(S), IsPrefix(a, b), NEW e \in S
    PROVE  IsPrefix(a, Append(b, e))
<1>1. Len(a) <= Len(b) /\ SubSeq(a, 1, Len(a)) = SubSeq(b, 1, Len(a))
      BY DEF IsPrefix
<1>2. SubSeq(Append(b, e), 1, Len(a)) = SubSeq(b, 1, Len(a))
      BY <1>1
<1> QED
    BY <1>1, <1>2 DEF IsPrefix

\* Below a namespace a clean path only leads further down.
LEMMA WithinLeadsBelow ==
    ASSUME NEW ns \in Seq(STRING), NEW project \in Seq(STRING), Within(project, ns)
    PROVE  IsPrefix(Location(ns), Location(project))
<1>1. PICK rd : IsReading(rd, ns) /\ Location(ns) = Walk(rd[Len(ns)].dir, rd[Len(ns)].seg)
      BY LocationReads
<1>2. PICK st : /\ IsReading(st, project)
                /\ Location(project) = Walk(st[Len(project)].dir, st[Len(project)].seg)
      BY LocationReads
<1> DEFINE n == Len(ns)
           last == Len(project)
           top == Location(ns)
<1>3. top \in Seq(Seq(STRING))
      <2>1. n \in 0..Len(ns)
            OBVIOUS
      <2>2. PICK dir \in Seq(Seq(STRING)), seg \in Seq(STRING) :
                dir = rd[n].dir /\ seg = rd[n].seg
            BY <1>1, <2>1, ReadingType
      <2> QED
          BY <1>1, <2>2, WalkType
<1>4. IsPrefix(top, top)
      BY <1>3 DEF IsPrefix
<1>5. CASE project = ns
      BY <1>4, <1>5
<1>6. CASE IsPrefix(Append(ns, "/"), project)
      <2>1. n \in Nat /\ last \in Nat /\ DOMAIN project = 1..last
            OBVIOUS
      <2>2. n + 1 <= last /\ \A k \in 1..(n + 1) : project[k] = Append(ns, "/")[k]
            <3> DEFINE base == Append(ns, "/")
            <3>1. Len(base) = n + 1 /\ base \in Seq(STRING \cup {"/"})
                  <4>1. ns \in Seq(STRING \cup {"/"})
                        OBVIOUS
                  <4> QED
                      BY <4>1, AppendProperties
            <3>2. n + 1 <= last /\ SubSeq(base, 1, n + 1) = SubSeq(project, 1, n + 1)
                  BY <1>6, <3>1 DEF IsPrefix
            <3> HIDE DEF base
            <3>3. ASSUME NEW k \in 1..(n + 1) PROVE project[k] = base[k]
                  <4>1. SubSeq(base, 1, n + 1)[k] = base[k]
                        BY <2>1, <3>1
                  <4>2. SubSeq(project, 1, n + 1)[k] = project[k]
                        BY <2>1, <3>2
                  <4> QED
                      BY <3>2, <4>1, <4>2
            <3> QED
                BY <3>2, <3>3 DEF base
      <2>3. project[n + 1] = "/" /\ \A k \in 1..n : project[k] = ns[k]
            BY <2>1, <2>2
      <2>4. st[n] = rd[n]
            BY <1>1, <1>2, <2>1, <2>2, <2>3, SameReading
      <2>5. st[n + 1] = [dir |-> top, seg |-> <<>>]
            <3>1. n + 1 \in 1..last /\ (n + 1) - 1 = n
                  BY <2>1, <2>2
            <3>2. st[n + 1] = ReadChar(st[n], project[n + 1])
                  BY <1>2, <3>1 DEF IsReading
            <3> QED
                BY <1>1, <2>3, <2>4, <3>2 DEF ReadChar
      <2> DEFINE Since(j, k) == /\ j \in (n + 1)..k /\ project[j] = "/"
                                /\ \A i \in (j + 1)..k : project[i] # "/"
                                /\ st[k].seg = SubSeq(project, j + 1, k)
                 Below(k) == IsPrefix(top, st[k].dir) /\ \E j \in 1..last : Since(j, k)
                 Reached == {m \in Nat : n + 1 + m <= last => Below(n + 1 + m)}
      <2>6. Below(n + 1)
            <3>1. SubSeq(project, (n + 1) + 1, n + 1) = <<>>
                  BY <2>1
            <3>2. n + 1 \in (n + 1)..(n + 1) /\ n + 1 \in 1..last /\ ((n + 1) + 1)..(n + 1) = {}
                  BY <2>1, <2>2
            <3>3. Since(n + 1, n + 1)
                  BY <2>3, <2>5, <3>1, <3>2
            <3> HIDE DEF Since
            <3> QED
                BY <1>4, <2>5, <3>2, <3>3
      <2>7. ASSUME NEW k \in (n + 1)..(last - 1), Below(k) PROVE Below(k + 1)
            <3>1. PICK j \in 1..last : Since(j, k)
                  BY <2>7
            <3>2. /\ k \in Nat /\ k + 1 \in 1..last /\ (k + 1) - 1 = k /\ k \in 0..last
                  /\ j \in Nat /\ n + 1 <= j /\ j <= k
                  BY <2>1, <2>7, <3>1
            <3>3. st[k + 1] = ReadChar(st[k], project[k + 1])
                  BY <1>2, <3>2 DEF IsReading
            <3>4. PICK dir \in Seq(Seq(STRING)), seg \in Seq(STRING) :
                      dir = st[k].dir /\ seg = st[k].seg
                  BY <1>2, <3>2, ReadingType
            <3>5. IsPrefix(top, dir) /\ seg = SubSeq(project, j + 1, k)
                  BY <2>7, <3>1, <3>4
            <3>6. CASE project[k + 1] = "/"
                  <4>1. Walk(dir, seg) = Append(dir, seg)
                        <5>1. j \in DOMAIN project /\ k + 1 \in DOMAIN project /\ j < k + 1
                              BY <2>1, <3>2
                        <5>2. \A i \in (j + 1)..((k + 1) - 1) : project[i] # "/"
                              BY <3>1, <3>2
                        <5>3. CleanPath(project) /\ project[j] = "/" /\ k + 1 \in Nat
                              BY <3>1, <3>2 DEF Within
                        <5>4. Walk(dir, SubSeq(project, j + 1, (k + 1) - 1))
                                  = Append(dir, SubSeq(project, j + 1, (k + 1) - 1))
                              BY <3>6, <5>1, <5>2, <5>3, CleanSegment
                        <5> QED
                            BY <3>2, <3>5, <5>4
                  <4>2. IsPrefix(top, Append(dir, seg))
                        BY <1>3, <3>4, <3>5, PrefixGrows
                  <4>3. st[k + 1] = [dir |-> Append(dir, seg), seg |-> <<>>]
                        BY <3>3, <3>4, <3>6, <4>1 DEF ReadChar
                  <4>4. SubSeq(project, (k + 1) + 1, k + 1) = <<>>
                        BY <3>2
                  <4>5. k + 1 \in (n + 1)..(k + 1) /\ ((k + 1) + 1)..(k + 1) = {}
                        BY <2>1, <3>2
                  <4>6. Since(k + 1, k + 1)
                        BY <3>6, <4>3, <4>4, <4>5
                  <4>7. IsPrefix(top, st[k + 1].dir)
                        BY <4>2, <4>3
                  <4> HIDE DEF Since
                  <4> QED
                      BY <3>2, <4>6, <4>7
            <3>7. CASE project[k + 1] # "/"
                  <4>1. st[k + 1].dir = dir /\ st[k + 1].seg = Append(seg, project[k + 1])
                        <5>1. st[k] = [dir |-> dir, seg |-> seg]
                              BY <1>2, <3>2, <3>4, ReadingType
                        <5> QED
                            BY <3>3, <3>7, <5>1 DEF ReadChar
                  <4>2. Append(SubSeq(project, j + 1, k), project[k + 1])
                            = SubSeq(project, j + 1, k + 1)
                        <5>1. j \in 1..Len(project) /\ k \in j..(Len(project) - 1)
                              BY <2>1, <2>7, <3>2
                        <5> QED
                            BY <5>1, SubSeqGrows
                  <4>3. ASSUME NEW i \in (j + 1)..(k + 1) PROVE project[i] # "/"
                        <5>1. i \in (j + 1)..k \/ i = k + 1
                              BY <3>2
                        <5> QED
                            BY <3>1, <3>7, <5>1
                  <4>4. j \in (n + 1)..(k + 1)
                        BY <2>1, <3>2
                  <4>5. Since(j, k + 1)
                        BY <3>1, <3>5, <4>1, <4>2, <4>3, <4>4
                  <4> HIDE DEF Since
                  <4> QED
                      BY <3>5, <4>1, <4>5
            <3> QED
                BY <3>6, <3>7
      <2>8. Below(last)
            <3> HIDE DEF Below
            <3>1. 0 \in Reached
                  BY <2>1, <2>6
            <3>2. ASSUME NEW m \in 0..((last - (n + 1)) - 1), m \in Reached PROVE m + 1 \in Reached
                  <4>1. /\ n + 1 + m \in (n + 1)..(last - 1) /\ n + 1 + m <= last
                        /\ m \in Nat /\ m + 1 \in Nat
                        BY <2>1, <2>2
                  <4>2. Below(n + 1 + m)
                        BY <3>2, <4>1
                  <4>3. Below((n + 1 + m) + 1)
                        BY <2>7, <4>1, <4>2
                  <4>4. (n + 1 + m) + 1 = n + 1 + (m + 1)
                        BY <2>1, <4>1
                  <4> QED
                      BY <4>1, <4>3, <4>4
            <3>3. last - (n + 1) \in Nat
                  BY <2>1, <2>2
            <3>4. 0..(last - (n + 1)) \subseteq Reached
                  <4> HIDE DEF Reached
                  <4> QED
                      BY <3>1, <3>2, <3>3, Climb
            <3>5. last - (n + 1) \in 0..(last - (n + 1)) /\ n + 1 + (last - (n + 1)) = last
                  BY <2>1, <3>3
            <3>6. last - (n + 1) \in Reached
                  BY <3>4, <3>5
            <3>7. n + 1 + (last - (n + 1)) <= last
                  BY <2>1, <3>5
            <3> QED
                BY <3>5, <3>6, <3>7
      <2>9. PICK j \in 1..last : Since(j, last)
            BY <2>8
      <2>10. PICK dir \in Seq(Seq(STRING)), seg \in Seq(STRING) :
                 dir = st[last].dir /\ seg = st[last].seg
            <3>1. last \in 0..last
                  BY <2>1
            <3> QED
                BY <1>2, <3>1, ReadingType
      <2>11. IsPrefix(top, dir) /\ seg = SubSeq(project, j + 1, last)
            BY <2>8, <2>9, <2>10
      <2>12. Walk(dir, seg) = Append(dir, seg)
            <3>1. j \in DOMAIN project /\ last + 1 \in Nat /\ j < last + 1 /\ (last + 1) - 1 = last
                  BY <2>1
            <3>2. \A i \in (j + 1)..((last + 1) - 1) : project[i] # "/"
                  BY <2>9, <3>1
            <3>3. CleanPath(project) /\ project[j] = "/"
                  BY <2>9 DEF Within
            <3>4. Walk(dir, SubSeq(project, j + 1, (last + 1) - 1))
                      = Append(dir, SubSeq(project, j + 1, (last + 1) - 1))
                  BY <3>1, <3>2, <3>3, CleanSegment
            <3> QED
                BY <2>11, <3>1, <3>4
      <2> QED
          BY <1>2, <1>3, <2>10, <2>11, <2>12, PrefixGrows
<1> QED
    BY <1>5, <1>6 DEF Within

\* Certificates carry the namespaces they were given.
LEMMA MemberNamespace == \A c \in MemberCerts : c.org_namespace \in Namespaces
<1>1. \A key, subject, role, ns, exp, id :
          Issue(key, subject, role, ns, exp, id).org_namespace = ns
      BY DEF Issue, Cert
<1> QED
    BY <1>1 DEF MemberCerts

\* An enrollment the relay trusts is for a project that, resolved segment by
\* segment, lies in the namespace of the org its chain stands for.
THEOREM EnrollmentProjectInNamespace == Spec => []ProjectInNamespace
<1>1. ASSUME TypeOK, Verdict = "Ok"
      PROVE  IsPrefix(Location(chain[1].org_namespace), Location(token.claims.project))
      <2>1. token # NONE /\ VerifyChain(token, chain, roots, now) = "Ok"
            BY <1>1 DEF Verdict
      <2>2. Len(chain) = 3 /\ chain # <<>>
            BY <2>1 DEF VerifyChain
      <2>3. Within(token.claims.project, chain[1].org_namespace)
            BY <2>1, <2>2 DEF VerifyChain
      <2>4. chain[1] \in MemberCerts
            BY <1>1, <2>2, ChainLinks DEF TypeOK
      <2>5. chain[1].org_namespace \in Seq(STRING)
            BY <2>4, MemberNamespace, PathAssumption
      <2>6. token.claims.project \in Seq(STRING)
            <3>1. token.claims.project \in Projects
                  BY <1>1, <2>1 DEF TypeOK, Tokens, AllClaims
            <3> QED
                BY <3>1, PathAssumption
      <2> QED
          BY <2>3, <2>5, <2>6, WithinLeadsBelow
<1>2. TypeOK => ProjectInNamespace
      BY <1>1 DEF ProjectInNamespace
<1> QED
    BY <1>2, EnrollmentTypeCorrect, PTL
=============================================================================
