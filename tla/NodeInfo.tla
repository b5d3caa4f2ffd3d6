------------------------------- MODULE NodeInfo -------------------------------
(***************************************************************************)
(* Node information queries of ping (-N): the words of the option, and the *)
(* nonces that tie an answer to a query of this process.                   *)
(*                                                                         *)
(* A nonce is the 16-bit number of the query and a digest of it with a     *)
(* secret.  It is kept here as the pair of the number it shows and the     *)
(* number its digest was computed from, 0 for a digest that is not of this *)
(* process.  The code keeps the digest computed last in a static, and the  *)
(* number it belongs to in another one.  The build without                 *)
(* PING6_NONCE_MEMORY is modelled.                                         *)
(***************************************************************************)
EXTENDS Integers, Sequences

CONSTANTS
    MaxQueries,     \* bound on the queries sent (less than 2^16)
    MaxReplies      \* bound on the packets received

ASSUME NodeAssumption == MaxQueries \in Nat /\ MaxReplies \in Nat

VARIABLES
    query,          \* ni.query: Qtype, -1 before it is set
    flag,           \* ni.flag: names of the flags that are set
    subject_type,   \* ni.subject_type, -1 before it is set
    subject,        \* ni.subject: "none", "word" (from -N) or "target"
    queries,        \* ntransmitted
    seq, digest,    \* statics of niquery_nonce(), seq = -1 at first
    buffer,         \* nonce that the last packet left in the receive buffer
    replies,        \* history: packets received
    accepted        \* history: numbers of accepted answers

optionVars == <<query, flag, subject_type, subject>>
nonceVars  == <<queries, seq, digest, buffer, replies, accepted>>

Foreign == [shown |-> 1, of |-> 0]

NodeInit ==
    /\ query = -1 /\ flag = {} /\ subject_type = -1 /\ subject = "none"
    /\ queries = 0 /\ seq = -1 /\ digest = 0
    /\ buffer = Foreign     \* malloc() leaves anything there but a digest
    /\ replies = 0 /\ accepted = {}
---------------------------------------------------------------------------
(***************************************************************************)
(* niquery_options[]                                                       *)
(***************************************************************************)
DNSNAME == 2
IPV6ADDR == 3
IPV4ADDR == 4
QueryWords == [name |-> DNSNAME, fqdn |-> DNSNAME, ipv6 |-> IPV6ADDR,
               ipv6_all |-> IPV6ADDR, ipv6_compatible |-> IPV6ADDR,
               ipv6_linklocal |-> IPV6ADDR, ipv6_sitelocal |-> IPV6ADDR,
               ipv6_global |-> IPV6ADDR,
               ipv4 |-> IPV4ADDR, ipv4_all |-> IPV4ADDR]
FlagWords == {"ipv6_all", "ipv6_compatible", "ipv6_linklocal", "ipv6_sitelocal",
              "ipv6_global", "ipv4_all"}
SubjectWords == [subject_ipv6 |-> 0, subject_name |-> 1, subject_fqdn |-> 1,
                 subject_ipv4 |-> 2]

niquery_is_enabled == query >= 0
niquery_is_subject_valid == subject_type >= 0 /\ subject # "none"

\* Wrong variant: the last of two query words wins.
Conflicts_Never(w) == FALSE

\* niquery_set_qtype() and niquery_set_subject_type() refuse a second type.
Conflicts(w) ==
    \/ w \in DOMAIN QueryWords /\ niquery_is_enabled /\ query # QueryWords[w]
    \/ w \in DOMAIN SubjectWords /\ niquery_is_subject_valid
       /\ subject_type # SubjectWords[w]

\* The word is taken; otherwise the help is printed and ping ends.  An address
\* or a name may also fail to be looked up.
Taken(w) ==
    /\ ~Conflicts(w)
    /\ \/ /\ w \in DOMAIN QueryWords
          /\ query' = QueryWords[w]
          /\ flag' = flag \cup (FlagWords \cap {w})
          /\ UNCHANGED <<subject_type, subject>>
       \/ /\ w \in DOMAIN SubjectWords
          /\ subject_type' = SubjectWords[w] /\ subject' = "word"
          /\ UNCHANGED <<query, flag>>
    /\ UNCHANGED nonceVars

Refused(w) == Conflicts(w) \/ w \notin DOMAIN QueryWords

\* ping6_run(): without a subject the query is about the target.
DefaultSubject ==
    IF niquery_is_enabled /\ ~niquery_is_subject_valid
    THEN subject_type' = SubjectWords["subject_ipv6"] /\ subject' = "target"
    ELSE UNCHANGED <<subject_type, subject>>
---------------------------------------------------------------------------
(***************************************************************************)
(* Nonces                                                                  *)
(***************************************************************************)
\* niquery_fill_nonce(): the digest of a query is always computed.  The same
\* number is filled in again when sendto() is repeated.
Query(sent) ==
    /\ queries < MaxQueries
    /\ seq' = queries + 1 /\ digest' = queries + 1
    /\ queries' = IF sent THEN queries + 1 ELSE queries
    /\ UNCHANGED <<optionVars, buffer, replies, accepted>>

\* Wrong variant: the digest is not computed anew for another number.
Digest_Cached(n) == digest

\* niquery_nonce(): the digest that nonce n is compared with.
Digest(n) == IF seq # n.shown \/ seq = -1 THEN n.shown ELSE digest

\* niquery_check_nonce() in ping6_parse_reply(); the memory of the digest
\* changes whether or not the answer is accepted.
Check(n) ==
    /\ digest' = Digest(n) /\ seq' = n.shown
    /\ accepted' = IF n.of = Digest(n) THEN accepted \cup {n.shown} ELSE accepted

\* A nonce of this process, of a query that left, or another one.
Nonces == {[shown |-> m, of |-> m] : m \in 1 .. queries}
          \cup {[shown |-> m, of |-> 0] : m \in 1 .. queries + 1}

\* A packet of at least 8 bytes is taken for an answer.  One of less than 16
\* bytes is judged by what an earlier packet left in the buffer.
Answer(n) ==
    /\ replies < MaxReplies /\ replies' = replies + 1
    /\ buffer' = n
    /\ Check(n)
    /\ UNCHANGED <<optionVars, queries>>

ShortAnswer == Answer(buffer)
---------------------------------------------------------------------------
(***************************************************************************)
(* Properties                                                              *)
(***************************************************************************)
NodeTypeOK ==
    /\ query \in {-1, DNSNAME, IPV6ADDR, IPV4ADDR} /\ flag \subseteq FlagWords
    /\ subject_type \in -1 .. 2 /\ subject \in {"none", "word", "target"}
    /\ queries \in 0 .. MaxQueries /\ replies \in 0 .. MaxReplies
    /\ seq \in {-1} \cup 1 .. MaxQueries + 1 /\ digest \in 0 .. MaxQueries + 1

\* Whatever was sent and received in between, and in whatever order answers
\* come: an accepted number is that of a query sent, a genuine answer to any
\* query so far would be accepted and no other digest would, so that the
\* static digest of niquery_nonce() is never used for another number.
NonceSound ==
    /\ accepted \subseteq 1 .. queries
    /\ \A n \in Nonces : Digest(n) = n.of <=> n.of # 0
=============================================================================
