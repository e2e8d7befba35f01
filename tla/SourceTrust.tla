------------------------------ MODULE SourceTrust ------------------------------
(***************************************************************************)
(* Which accounts are those of a person of whom one is confirmed           *)
(* (discover_profile.py, trust_edges.py, trust_graph.py): the probes bring *)
(* candidates, their pages links, propagate judges them to a fixed point,  *)
(* taking the accounts in whatever order the set yields them; then the     *)
(* blogs and newsletters found to be the person's are read for more, and   *)
(* all is judged again.                                                    *)
(*                                                                         *)
(* What a page shows and whether two handles match is the world's choice;  *)
(* a page that cannot be fetched shows nothing.  Organizations, and the    *)
(* cache of a verdict while the profile stays what it was, are left out.   *)
(***************************************************************************)
EXTENDS Integers, FiniteSets

CONSTANTS
  X, Substack, Blog, GitHub, Scholar,    \* canonical identities, by platform
  MaxLinks                               \* bound on the links of the pages first fetched

Kinds == {X, Substack, Blog, GitHub, Scholar}
Accounts == UNION Kinds

ASSUME TrustAssumption ==
  /\ IsFiniteSet(Accounts) /\ MaxLinks \in Nat
  /\ \A K, L \in Kinds : K /= L => K \cap L = {}

VARIABLES
  phase,
  root,          \* the confirmed profile
  declared,      \* the accounts it declares: typed identity edges
  sources,       \* the candidates
  links,         \* the other edges
  trusted,
  hubs,          \* trusted blogs and newsletters not yet read for more
  taken,         \* the platforms a trusted or surfaced account is on
  surfaced,      \* what a hub showed, with the hub
  owned          \* trusted for their handle, or as research, on a trusted hub

trustVars == <<phase, root, declared, sources, links, trusted, hubs, taken, surfaced, owned>>

Platforms(set) == {K \in Kinds : K \cap set /= {}}
OneEach(set) == \A a, b \in set : Platforms({a}) = Platforms({b}) => a = b
Hubs == Substack \cup Blog

TrustInit ==
  /\ phase = "probing" /\ root \in X \cup Hubs
  /\ declared = {} /\ sources = {} /\ links = {} /\ trusted = {}
  /\ hubs = {} /\ taken = {} /\ surfaced = {} /\ owned = {}

--------------------------------------------------------------------------------
(* Probes and pages. *)

\* What the profile declares; the bio of an X account, no other X account as a source.
Declares(accounts) == declared' = accounts \ {root}
Itself == IF root \in X THEN {} ELSE {root}
Declared(accounts) == IF root \in X THEN accounts \ X ELSE accounts \ {root}

\* The accounts of the same handle elsewhere.
Namesakes == CASE root \in X -> Substack \cup GitHub [] root \in Substack -> GitHub [] OTHER -> {}
\* The blog field of the GitHub account found so.
Field(guessed) == IF guessed \cap GitHub = {} THEN {} ELSE Accounts \ X
\* What the host model suggests.
Suggestible == Hubs \cup GitHub

\* The links among the person's candidates, on the pages of blogs and newsletters and in
\* the bio of the GitHub account.
Shows(pages, relevant) == {l \in pages \X relevant : l[1] /= l[2]}

Probes ==
  /\ phase = "probing" /\ phase' = "judging"
  /\ \E accounts \in SUBSET Accounts, guessed \in SUBSET Namesakes, suggested \in SUBSET Suggestible :
     \E field \in SUBSET Field(guessed) :
       /\ Declares(accounts)
       /\ OneEach(guessed) /\ Cardinality(field) <= 1
       /\ sources' = Itself \cup Declared(accounts) \cup guessed \cup field \cup suggested
       /\ LET bio == guessed \cap GitHub
              shows == Shows((sources' \cap Hubs) \cup bio, {root} \cup declared' \cup sources')
          IN  \E shown \in SUBSET shows :
                /\ Cardinality(shown) <= MaxLinks
                /\ links' = shown \cup {l \in bio \X field : l[1] /= l[2]}
  /\ trusted' = {root}
  /\ UNCHANGED <<root, hubs, taken, surfaced, owned>>

--------------------------------------------------------------------------------
(* propagate *)

Edges == links \cup ({root} \X declared)

Attested(c, S) == root \in S /\ c \in declared                          \* Rule 5
Mutual(c, S) == \E t \in S : {<<t, c>>, <<c, t>>} \subseteq Edges         \* Rule 2

\* A slip: it is enough that two accounts point at it, whosever they are.
Cited_ByAnyone(c, S) == \E t, u \in Accounts : t /= u /\ {<<t, c>>, <<u, c>>} \subseteq Edges
\* Rules 3 and 4.
Cited(c, S) == \E t, u \in S : t /= u /\ {<<t, c>>, <<u, c>>} \subseteq Edges

Earns(c, S) == Attested(c, S) \/ Mutual(c, S) \/ Cited(c, S)
AllJudged == \A c \in Accounts : Earns(c, trusted) => c \in trusted

Graduates(c) ==
  /\ phase \in {"judging", "judging again"}
  /\ c \notin trusted /\ Earns(c, trusted)
  /\ trusted' = trusted \cup {c}
  /\ UNCHANGED <<phase, root, declared, sources, links, hubs, taken, surfaced, owned>>

--------------------------------------------------------------------------------
(* _expand_from_trusted_hubs *)

\* The trusted hubs of the first verdict, and the platforms that need no more.
Judged ==
  /\ phase = "judging" /\ AllJudged
  /\ hubs' = sources \cap trusted \cap Hubs
  /\ taken' = Platforms(sources \cap trusted)
  /\ phase' = IF hubs' = {} THEN "told" ELSE "reading hubs"
  /\ UNCHANGED <<root, declared, sources, links, trusted, surfaced, owned>>

\* A hub is read: an X handle, and one profile for each platform that has none.
ReadsHub(h) ==
  /\ phase = "reading hubs" /\ h \in hubs /\ hubs' = hubs \ {h}
  /\ \E handle \in SUBSET X, found \in SUBSET (Accounts \ {h}) :
       /\ handle = {} \/ (h \in Substack /\ Cardinality(handle) = 1)
       /\ Platforms(found) \cap taken = {} /\ OneEach(found)
       /\ links' = links \cup ({h} \X (handle \cup found))
       /\ surfaced' = surfaced \cup ({h} \X found)
       /\ sources' = sources \cup found
       /\ taken' = taken \cup Platforms(found)
  /\ UNCHANGED <<phase, root, declared, trusted, owned>>

\* Judged again over what was found; when that is nothing, to the same verdict.
Rejudges ==
  /\ phase = "reading hubs" /\ hubs = {} /\ phase' = "judging again"
  /\ trusted' = {root}
  /\ UNCHANGED <<root, declared, sources, links, hubs, taken, surfaced, owned>>

\* Of what the hubs showed and the graph does not reach: research profiles, and handles
\* that match one of the person's.
Promotes ==
  /\ phase = "judging again" /\ AllJudged /\ phase' = "told"
  /\ \E chosen \in SUBSET {l[2] : l \in surfaced} :
       /\ Scholar \cap {l[2] : l \in surfaced} \subseteq chosen
       /\ owned' = chosen \ trusted
  /\ UNCHANGED <<root, declared, sources, links, trusted, hubs, taken, surfaced>>

TrustNext ==
  \/ Probes \/ Judged \/ Rejudges \/ Promotes
  \/ \E a \in Accounts : Graduates(a) \/ ReadsHub(a)

--------------------------------------------------------------------------------
\* "Trust is reachability ... rooted at the person's confirmed profile" (trust_graph.py):
\* no ring of accounts is trusted for vouching for one another; in each set of trusted
\* accounts without the root is one that the profile declares, or that exchanges links
\* with a trusted account outside, or that two such point at.  And an account trusted for
\* its handle is shown by a page that is trusted, still so after all was judged again.
Vouched(c, others) ==
  \/ c \in declared
  \/ \E t \in others : {<<t, c>>, <<c, t>>} \subseteq Edges
  \/ \E t, u \in others : t /= u /\ {<<t, c>>, <<u, c>>} \subseteq Edges
NoRing == \A ring \in SUBSET (trusted \ {root}) :
            ring /= {} => \E c \in ring : Vouched(c, trusted \ ring)
TrustEarned ==
  /\ NoRing
  /\ \A a \in owned : \E h \in trusted \cap Hubs : <<h, a>> \in links
=============================================================================
