----------------------------- MODULE Enrollment -----------------------------
(***************************************************************************)
(* How a peer is let in (crates/crossx-relay-rs): the [member, org,        *)
(* issuing] chain and the enrollment it presents, verify_chain, which      *)
(* decides on them (cert.rs, enroll.rs), and Peer::connect, which pins the *)
(* relay's certificate and proves possession of the enrolled key (peer.rs, *)
(* auth.rs).  The relay at the other end runs the twin of verify_chain.    *)
(*                                                                         *)
(* Simplifications:                                                        *)
(*  - a signature is the key that made it and the bytes it was made over;  *)
(*    canonical bytes are the record of the fields they are made of, as    *)
(*    each field goes in behind its length (append_chunk);                 *)
(*  - fields nothing decides on are left out (subject_id, v, peer, kind,   *)
(*    scope), and so are keys of the wrong length, which sign nothing;     *)
(*  - a nonce is fresh: no transcript fits two connections;                *)
(*  - a certificate is as its issuer signed it, or has a namespace somebody *)
(*    edited; issuers may sign what they should not, with their own key.   *)
(***************************************************************************)
EXTENDS Integers, SequencesExt

CONSTANTS
    RootIds, RootKeys,      \* the trust anchors: their names, and their keys
    IssuingKeys, OrgKeys,   \* the keys of issuing CAs and of orgs
    MemberKeys,             \* the keys that sign enrollments
    Self,                   \* the key of RelayConfig::key_seed
    PeerKeys,               \* the keys enrollments are made out to
    Namespaces, Projects,   \* paths, as sequences of characters
    Exps,                   \* expiry times
    Start, Horizon,         \* the relay's clock runs from Start to Horizon
    Leaves, Pinned,         \* TLS certificates of the relay, and the pinned one
    NONE                    \* nothing

ASSUME ClockAssumption == Start \in Int /\ Horizon \in Int /\ Exps \subseteq Int
ASSUME PathAssumption == \A p \in Namespaces \cup Projects : p \in Seq(STRING)
ASSUME PeerAssumption == Pinned \in Leaves \ {NONE} /\ Self \in PeerKeys
ASSUME NoneAssumption == NONE \notin RootKeys \cup {"ok", "refused", "odd"}

VARIABLES
    now,       \* now_unix
    roots,     \* the RootMap of the relay
    chain,     \* RelayConfig::chain
    token,     \* RelayConfig::enrollment, or NONE on the M0 path
    step,      \* Peer::connect: "closed", "connected", "proved", "answered"
               \* or, once it has returned Ok, "open"
    binding,   \* the certificate the peer took its relay binding from
    proof,     \* the signature of the AuthProof
    answer,    \* the AuthResp: "ok", "refused" or "odd"
    admitted   \* history: whether the relay let this connection in

files == <<chain, token>>
session == <<step, binding, proof, answer, admitted>>
vars == <<now, roots, files, session>>

Signed(key, bytes) == [by |-> key, over |-> bytes]

-----------------------------------------------------------------------------
(* cert.rs and enroll.rs *)

CanonicalCert(c) ==
    [tag |-> "cert", subject_pub |-> c.subject_pub, role |-> c.role,
     org_namespace |-> c.org_namespace, exp |-> c.exp, issuer_id |-> c.issuer_id]

Canonical(claims) ==
    [tag |-> "enroll", project |-> claims.project, pub |-> claims.pub, exp |-> claims.exp]

\* Mutant of VerifyCertSig: whoever signed it.
VerifyCertSigAny(c, pub) == c.sig.over = CanonicalCert(c)

VerifyCertSig(c, pub) == c.sig = Signed(pub, CanonicalCert(c))

Verify(tk, pub) == tk.sig = Signed(pub, Canonical(tk.claims))

\* Mutant of Expired: expired at that very second only.
ExpiredThen(exp, t) == exp <= 0 \/ t = exp

Expired(exp, t) == exp <= 0 \/ t >= exp

\* Two slashes of a path, or its ends, with none in between.
Bounds(s) == {0, Len(s) + 1} \cup {i \in DOMAIN s : s[i] = "/"}
Adjacent(s, i, j) == i < j /\ \A k \in Bounds(s) : k <= i \/ j <= k

CleanPath(s) ==
    \A i, j \in Bounds(s) : Adjacent(s, i, j) =>
        SubSeq(s, i + 1, j - 1) \notin {<<>>, <<".">>, <<".", ".">>}

\* Mutant of Within: starts_with without the slash.
WithinPrefix(project, ns) ==
    CleanPath(project) /\ CleanPath(ns) /\ IsPrefix(ns, project)

Within(project, ns) ==
    /\ CleanPath(project) /\ CleanPath(ns)
    /\ (project = ns \/ IsPrefix(Append(ns, "/"), project))

Roles == <<"member", "org", "issuing">>

\* verify_chain of a token and a chain under the roots rts at time t: the
\* claims are trusted if "Ok", otherwise the error is named.
VerifyChain(tk, ch, rts, t) ==
    IF Len(ch) # 3 THEN "Chain" ELSE
    LET member == ch[1]
        org == ch[2]
        issuing == ch[3]
    IN  IF \E i \in 1..3 : ch[i].role # Roles[i] THEN "Chain"
        ELSE IF \E i \in 1..3 : Expired(ch[i].exp, t) THEN "Expired"
        ELSE IF ~VerifyCertSig(member, org.subject_pub) THEN "Chain"
        ELSE IF ~VerifyCertSig(org, issuing.subject_pub) THEN "Chain"
        ELSE IF rts[issuing.issuer_id] = NONE THEN "UntrustedRoot"
        ELSE IF ~VerifyCertSig(issuing, rts[issuing.issuer_id]) THEN "UntrustedRoot"
        ELSE IF member.org_namespace = <<>> \/ member.org_namespace # org.org_namespace
             THEN "Chain"
        ELSE IF ~Verify(tk, member.subject_pub) THEN "Enroll"
        ELSE IF Expired(tk.claims.exp, t) THEN "Expired"
        ELSE IF ~Within(tk.claims.project, member.org_namespace) THEN "CrossOrg"
        ELSE "Ok"

-----------------------------------------------------------------------------
(* What issuers hand out, and what becomes of it. *)

Cert(subject, role, ns, exp, id, sig) ==
    [subject_pub |-> subject, role |-> role, org_namespace |-> ns, exp |-> exp,
     issuer_id |-> id, sig |-> sig]

Issue(key, subject, role, ns, exp, id) ==
    Cert(subject, role, ns, exp, id,
         Signed(key, CanonicalCert(Cert(subject, role, ns, exp, id, NONE))))

IssuingCerts ==
    {Issue(r, k, "issuing", <<>>, e, id) :
        r \in RootKeys, k \in IssuingKeys, e \in Exps, id \in RootIds}

\* An issuing CA enrolls orgs, and may certify a member it has no business with.
SignedOrgCerts ==
    {Issue(k, o, "org", ns, e, NONE) :
        k \in IssuingKeys, o \in OrgKeys, ns \in Namespaces, e \in Exps}
    \cup {Issue(k, m, "member", ns, e, NONE) :
        k \in IssuingKeys, m \in MemberKeys, ns \in Namespaces, e \in Exps}

OrgCerts ==
    SignedOrgCerts
    \cup {[c EXCEPT !.org_namespace = ns] : c \in SignedOrgCerts, ns \in Namespaces}

\* Orgs certify members; a member may certify another, though it should not.
MemberCerts ==
    {Issue(k, m, "member", ns, e, NONE) :
        k \in OrgKeys \cup MemberKeys, m \in MemberKeys, ns \in Namespaces, e \in Exps}

AllClaims == [project : Projects, pub : PeerKeys, exp : Exps]
Tokens == {[claims |-> c, sig |-> Signed(m, Canonical(c))] :
               c \in AllClaims, m \in MemberKeys}

Chains ==
    {<<>>} \cup {<<m, o, i>> : m \in MemberCerts, o \in OrgCerts, i \in IssuingCerts}

-----------------------------------------------------------------------------
(* auth.rs and peer.rs *)

Transcript(leaf) == [tag |-> "auth", digest |-> leaf]
EnrollmentTranscript(leaf, bytes) ==
    [tag |-> "enroll-pop", digest |-> leaf, claims |-> bytes]

\* Mutant of ProofTranscript: the bare identity on both paths.
ProofTranscriptBare(tk, leaf) == Transcript(leaf)

ProofTranscript(tk, leaf) ==
    IF tk = NONE THEN Transcript(leaf)
    ELSE EnrollmentTranscript(leaf, Canonical(tk.claims))

\* Mutant of VerifyServerCert: any certificate will do.
VerifyServerCertAny(leaf) == TRUE

VerifyServerCert(leaf) == leaf = Pinned

\* connect_tls: no session comes of a leaf that is not the pinned one.
Connect ==
    /\ step = "closed"
    /\ \E leaf \in Leaves : VerifyServerCert(leaf) /\ binding' = leaf
    /\ step' = "connected"
    /\ UNCHANGED <<now, roots, files, proof, answer, admitted>>

\* authenticate: AuthInit, and the proof over the challenge.
Prove ==
    /\ step = "connected"
    /\ proof' = Signed(Self, ProofTranscript(token, binding))
    /\ step' = "proved"
    /\ UNCHANGED <<now, roots, files, binding, answer, admitted>>

\* The relay: on the M1 path it trusts what verify_chain returns and wants the
\* proof to be made with claims.pub; on the M0 path Self is registered with it.
Accepts(t) ==
    IF token = NONE THEN proof = Signed(Self, Transcript(Pinned))
    ELSE /\ VerifyChain(token, chain, roots, t) = "Ok"
         /\ proof = Signed(token.claims.pub,
                           EnrollmentTranscript(Pinned, Canonical(token.claims)))

\* Its answer lets the peer in, or refuses it; or it cannot be made sense of
\* (no session_id, another version), whatever the relay did.
Answer ==
    /\ step = "proved"
    /\ answer' \in {IF Accepts(now) THEN "ok" ELSE "refused", "odd"}
    /\ admitted' = Accepts(now)
    /\ step' = "answered"
    /\ UNCHANGED <<now, roots, files, binding, proof>>

\* Mutant of Understood: the check of version and session_id is gone.
UnderstoodLax(resp) == resp # "refused"

\* response_error, and the check of version and session_id.
Understood(resp) == resp = "ok"

Finish ==
    /\ step = "answered" /\ Understood(answer)
    /\ step' = "open"
    /\ UNCHANGED <<now, roots, files, binding, proof, answer, admitted>>

\* An error on the way, or the end of an open session: the pipe is dropped.
Drop ==
    /\ step # "closed"
    /\ step' = "closed" /\ binding' = NONE /\ proof' = NONE /\ answer' = NONE
    /\ admitted' = FALSE
    /\ UNCHANGED <<now, roots, files>>

\* load_peer_config has read the files before the first connection: others are
\* seen by the next process only.  One of the four is another then.
Restart ==
    /\ step = "closed"
    /\ \/ token' \in Tokens \cup {NONE} /\ UNCHANGED chain
       \/ /\ chain # <<>> /\ UNCHANGED token
          /\ \/ \E c \in MemberCerts : chain' = <<c, chain[2], chain[3]>>
             \/ \E c \in OrgCerts : chain' = <<chain[1], c, chain[3]>>
             \/ \E c \in IssuingCerts : chain' = <<chain[1], chain[2], c>>
    /\ UNCHANGED <<now, roots, session>>

\* RootMap::add at the relay: a new anchor, or another key for an old one.
AddRoot ==
    /\ \E id \in RootIds, k \in RootKeys : roots' = [roots EXCEPT ![id] = k]
    /\ UNCHANGED <<now, files, session>>

Tick ==
    /\ now < Horizon
    /\ now' = now + 1
    /\ UNCHANGED <<roots, files, session>>

Init ==
    /\ now = Start
    /\ roots \in [RootIds -> RootKeys \cup {NONE}]
    /\ chain \in Chains
    /\ token \in Tokens \cup {NONE}
    /\ step = "closed" /\ binding = NONE /\ proof = NONE /\ answer = NONE
    /\ admitted = FALSE

Next ==
    \/ Connect \/ Prove \/ Answer \/ Finish \/ Drop
    \/ Restart \/ AddRoot \/ Tick

Spec == Init /\ [][Next]_vars

-----------------------------------------------------------------------------
(* Properties *)

\* The state is well formed: the binding of a connection is the certificate the
\* peer pinned (PinnedCertificateVerifier), and there is none without one.
TypeOK ==
    /\ now \in Int
    /\ roots \in [RootIds -> RootKeys \cup {NONE}]
    /\ chain \in Chains
    /\ token \in Tokens \cup {NONE}
    /\ step \in {"closed", "connected", "proved", "answered", "open"}
    /\ answer \in {NONE, "ok", "refused", "odd"}
    /\ admitted \in BOOLEAN
    /\ binding \in {NONE, Pinned}
    /\ step = "closed" <=> binding = NONE

\* Who deserves to be let in, said without an order of checks: a root vouches
\* for an issuing CA, which vouches for an org and its namespace, which vouches
\* for a member there, which enrolled the peer in a project below; and no
\* statement has run out.  A statement is what was signed, whatever the
\* certificate around the signature says by now.
Statements(t) == {s \in {chain[i].sig : i \in DOMAIN chain} : ~Expired(s.over.exp, t)}

Entitled(t) ==
    \E root, org, member \in Statements(t) :
        /\ root.over.role = "issuing"
        /\ root.by # NONE /\ root.by = roots[root.over.issuer_id]
        /\ org.over.role = "org" /\ org.by = root.over.subject_pub
        /\ member.over.role = "member" /\ member.by = org.over.subject_pub
        /\ member.over.org_namespace = org.over.org_namespace
        /\ token.sig.by = member.over.subject_pub
        /\ ~Expired(token.sig.over.exp, t)
        /\ Within(token.sig.over.project, member.over.org_namespace)

Deserving(t) == token = NONE \/ (Entitled(t) /\ token.claims.pub = Self)

\* Nobody has edited the files.
Intact == \A i \in DOMAIN chain : chain[i].sig.over = CanonicalCert(chain[i])

Verdict == IF token = NONE THEN "M0" ELSE VerifyChain(token, chain, roots, now)

\* The relay lets nobody in who does not deserve it: the checks of verify_chain
\* (cert.rs:127) and the proof, taken one after another, leave no way around.
AdmittedForCause == [][admitted' /\ ~admitted => Deserving(now)]_vars

\* It refuses nobody who deserves it: no check is too strict, and the peer
\* proves what the relay expects of its path (proof_transcript, peer.rs:419).
RefusedForCause ==
    [][answer' = "refused" /\ answer # "refused" => ~(Intact /\ Deserving(now))]_vars

\* A peer whose connect has returned Ok was let in on that very connection:
\* neither a refusal nor an answer that makes no sense (peer.rs:407) opens it.
OpenIsAdmitted == step = "open" => admitted

\* What has expired stays out until its files are replaced: not the clock and
\* no new root can bring it back, so the agent's retries are in vain.
ExpiredStaysOut == [][Verdict = "Expired" /\ UNCHANGED files => Verdict' # "Ok"]_vars

\* The inductive invariant: the proof on its way is the one over this token and
\* this connection, and only the relay's acceptance is answered with "ok".
IInv ==
    /\ TypeOK
    /\ step = "proved" => proof = Signed(Self, ProofTranscript(token, binding))
    /\ answer = "ok" => admitted
    /\ OpenIsAdmitted
=============================================================================
