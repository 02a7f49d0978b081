------------------------------- MODULE Naming -------------------------------
(***************************************************************************)
(* Names, ids and paths: what a client gets that asks under the path of a  *)
(* billet or a subscription, or subscribes with names of its choice.       *)
(*                                                                         *)
(* A name is a sequence of characters.  Of a credential or a subscription  *)
(* only what it is for is kept, and all of a handler is one step: Daemon   *)
(* has the rest.                                                           *)
(***************************************************************************)
EXTENDS Naturals, SequencesExt

CONSTANTS
  Discoveries,      \* triples of lists of names: answers of POST /billets/me
  Lists,            \* lists of names: the billets of POST /subscriptions
  Audiences,        \* its audiences, <<>> for none
  Audience,         \* exchange.audience
  MaxSubscriptions  \* bounds the subscriptions at one time

\* The characters, in the order of sort.Strings.
Alphabet == <<"space", "dot", "slash", "colon", "underscore", "a", "aud", "b">>
Char == ToSet(Alphabet)
Safe(c) == c \notin {"space", "slash", "colon"}

ASSUME ConstantsAssumption ==
  /\ Discoveries \subseteq [1..3 -> Seq(Seq(Char))]
  /\ Lists \subseteq Seq(Seq(Char))
  /\ Audiences \subseteq Seq(Char)
  /\ Audience \in Seq(Char)
  /\ MaxSubscriptions \in Nat

-----------------------------------------------------------------------------

\* strings.TrimSpace
Trim(s) ==
  LET solid == {i \in DOMAIN s : s[i] # "space"}
  IN  IF solid = {} THEN <<>> ELSE SubSeq(s, Min(solid), Max(solid))

\* Each run of unsafe characters becomes one "_".
sanitizeBilletName(name) ==
  LET t == Trim(name)
  IN  IF t = <<>> THEN <<"underscore">>
      ELSE FlattenSeq([i \in DOMAIN t |->
             IF Safe(t[i]) THEN <<t[i]>>
             ELSE IF i = 1 \/ Safe(t[i - 1]) THEN <<"underscore">> ELSE <<>>])

Rank(c) == CHOOSE i \in DOMAIN Alphabet : Alphabet[i] = c

Before(s, t) ==
  \E i \in 1..Len(t) :
    /\ i <= Len(s) + 1
    /\ \A k \in 1..(i - 1) : s[k] = t[k]
    /\ i = Len(s) + 1 \/ Rank(s[i]) < Rank(t[i])

Sorted(S) == CHOOSE s \in [1..Cardinality(S) -> S] :
               /\ ToSet(s) = S
               /\ \A i, j \in DOMAIN s : i < j => Before(s[i], s[j])

\* Each name where it comes first, and not the empty one.
Firsts(names) ==
  FlattenSeq([i \in DOMAIN names |->
    IF names[i] # <<>> /\ \A j \in 1..(i - 1) : names[j] # names[i]
    THEN <<names[i]>> ELSE <<>>])

\* Mutant: the names stay in the order they are given in.
normalizeBillets_NoSort(names) ==
  Firsts([i \in DOMAIN names |-> Trim(names[i])])

\* Mutant: the empty name is not dropped.
normalizeBillets_KeepsEmpty(names) == Sorted({Trim(n) : n \in ToSet(names)})

\* Trimmed, without the empty name and duplicates, and sorted.
normalizeBillets(names) == Sorted({Trim(n) : n \in ToSet(names)} \ {<<>>})

resolveAudience(requested) ==
  IF Trim(requested) = <<>> THEN Trim(Audience) ELSE Trim(requested)

Separator == <<"underscore", "underscore">>

Joined(billets) ==
  FlattenSeq([i \in DOMAIN billets |->
    IF i = 1 THEN sanitizeBilletName(billets[i])
    ELSE Separator \o sanitizeBilletName(billets[i])])

\* Mutant: the audience is not part of the id.
subscriptionID_NoAudience(billets, audience) == Joined(billets)

\* Mutant: the audience is not sanitized.
subscriptionID_RawAudience(billets, audience) ==
  Joined(billets) \o Separator \o <<"aud">> \o Separator \o audience

subscriptionID(billets, audience) ==
  Joined(billets) \o Separator \o <<"aud">>
                  \o Separator \o sanitizeBilletName(audience)

\* Mutant: duplicates are only dropped within a list.
unionDiscoveredBillets_PerList(lists) ==
  FlattenSeq([k \in DOMAIN lists |-> Firsts(lists[k])])

\* billets, implicit_billets, cedar_billets.
unionDiscoveredBillets(lists) == Firsts(FlattenSeq(lists))

\* ServeMux redirects a path with such a segment to another path.
Cleaned(segment) == segment \in {<<"dot">>, <<"dot", "dot">>}

-----------------------------------------------------------------------------

VARIABLES
  available,      \* d.available, a list
  credentials,    \* the names in d.credentials
  subscriptions,  \* d.subscriptions: id -> billets and audience
  answer          \* what the last client asked for, and what it got

vars == <<available, credentials, subscriptions, answer>>

Sub(billets, audience) == [billets |-> billets, audience |-> audience]
Reply(kind, asked, got) == [kind |-> kind, asked |-> asked, got |-> got]

\* Names are trimmed and not empty, lists of them sorted without duplicates.
TypeOK ==
  /\ available \in Seq(Seq(Char) \ {<<>>})
  /\ credentials \subseteq Seq(Char) \ {<<>>}
  /\ \A id \in DOMAIN subscriptions :
       LET b == subscriptions[id].billets
       IN  /\ b # <<>>
           /\ \A i \in DOMAIN b : b[i] # <<>> /\ b[i] = Trim(b[i])
           /\ \A i, j \in DOMAIN b : i < j => Before(b[i], b[j])
  /\ answer.kind \in {"none", "billet", "subscription", "post"}

Init ==
  /\ available = <<>>
  /\ credentials = {}
  /\ subscriptions = << >>
  /\ answer = Reply("none", {}, {})

\* A refresh: an empty discovery leaves the credentials alone, and a billet
\* whose exchange fails has none.
Refresh(lists) ==
  /\ available' = unionDiscoveredBillets(lists)
  /\ IF available' = <<>> THEN UNCHANGED credentials
     ELSE credentials' \in SUBSET ToSet(available')
  /\ UNCHANGED <<subscriptions, answer>>

findBillet(url) == {n \in credentials : sanitizeBilletName(n) = url}

\* A client follows the token_path of billet n.
GetBillet(n) ==
  LET url == sanitizeBilletName(n)
      found == IF Cleaned(url) THEN {} ELSE findBillet(url)
  IN  /\ IF found = {} THEN answer' = Reply("billet", {n}, {})
         ELSE \E m \in found : answer' = Reply("billet", {n}, {m})
      /\ UNCHANGED <<available, credentials, subscriptions>>

\* POST /subscriptions: a list without names is refused, an id that exists
\* gets the entry it has.
CreateSubscription(names, requested) ==
  LET sub == Sub(normalizeBillets(names), resolveAudience(requested))
      id == subscriptionID(sub.billets, sub.audience)
  IN  /\ sub.billets # <<>>
      /\ IF id \in DOMAIN subscriptions
         THEN /\ answer' = Reply("post", {sub}, {subscriptions[id]})
              /\ UNCHANGED subscriptions
         ELSE /\ Cardinality(DOMAIN subscriptions) < MaxSubscriptions
              /\ answer' = Reply("post", {sub}, {sub})
              /\ subscriptions' =
                   [i \in DOMAIN subscriptions \cup {id} |->
                      IF i = id THEN sub ELSE subscriptions[i]]
      /\ UNCHANGED <<available, credentials>>

findSubscription(url) ==
  {i \in DOMAIN subscriptions : sanitizeBilletName(i) = url}

\* A client follows the path of subscription id.
GetSubscription(id) ==
  LET found == findSubscription(id)
  IN  /\ IF found = {}
         THEN answer' = Reply("subscription", {subscriptions[id]}, {})
         ELSE \E i \in found : answer' =
                Reply("subscription", {subscriptions[id]}, {subscriptions[i]})
      /\ UNCHANGED <<available, credentials, subscriptions>>

DeleteSubscription(id) ==
  /\ \E i \in findSubscription(id) :
       subscriptions' = [j \in DOMAIN subscriptions \ {i} |-> subscriptions[j]]
  /\ UNCHANGED <<available, credentials, answer>>

Next ==
  \/ \E d \in Discoveries : Refresh(d)
  \/ \E n \in credentials : GetBillet(n)
  \/ \E names \in Lists, a \in Audiences : CreateSubscription(names, a)
  \/ \E id \in DOMAIN subscriptions :
       GetSubscription(id) \/ DeleteSubscription(id)

Spec == Init /\ [][Next]_vars

-----------------------------------------------------------------------------

\* The path in an answer to POST /subscriptions leads back to that
\* subscription: an id is not changed by the sanitizing of the lookup, and no
\* other id is changed into it.
SubscriptionReachable == answer.kind = "subscription" => answer.got = answer.asked

\* However a client orders, repeats or pads the names, there is one
\* subscription for a set of billets and an audience.
OneIdPerRequest ==
  \A i, j \in DOMAIN subscriptions :
    subscriptions[i].audience = subscriptions[j].audience
    /\ ToSet(subscriptions[i].billets) = ToSet(subscriptions[j].billets) => i = j

\* A name that sanitizing does not touch and whose "_" cannot be taken for a
\* part of a separator.
Plain(s) ==
  /\ s = sanitizeBilletName(s)
  /\ s[1] # "underscore" /\ s[Len(s)] # "underscore"
  /\ \A i \in 1..(Len(s) - 1) : s[i] # "underscore" \/ s[i + 1] # "underscore"

PlainSub(sub) == Plain(sub.audience) /\ \A b \in ToSet(sub.billets) : Plain(b)

\* Requests of plain names never share a subscription.
PlainRequestsOwnEntry ==
  answer.kind = "post" /\ (\A s \in answer.asked \cup answer.got : PlainSub(s))
    => answer.got = answer.asked

\* A billet that is in several of the lists discovery returns is available, and
\* exchanged for, once.
AvailableOnce ==
  \A i, j \in DOMAIN available : i # j => available[i] # available[j]

\* What OneIdPerRequest and PlainRequestsOwnEntry rest on: a subscription has
\* the id of its billets and its audience, and its billets are the sorted list
\* of the set they are.
SubscriptionInv ==
  \A id \in DOMAIN subscriptions :
    LET sub == subscriptions[id]
        names == ToSet(sub.billets)
    IN  /\ names # {} /\ IsFiniteSet(names)
        /\ \A n \in names : n \in Seq(Char) \ {<<>>} /\ n = Trim(n)
        /\ sub = Sub(Sorted(names), sub.audience)
        /\ sub.audience \in Seq(Char)
        /\ id = subscriptionID(sub.billets, sub.audience)

\* "Returns the Quartermaster access token (JWT) for a single billet": what a
\* client gets under the path of a billet in the manifest is that billet's
\* token.  Violated: two names may have one path, and the token is another's.
PathServesBillet == answer.kind = "billet" => answer.got \subseteq answer.asked

\* "Subscribe to a sorted, deduplicated list of billets for a target audience":
\* the subscription a POST answers with is for the billets and the audience of
\* the POST.  Violated: ids of different requests may be equal.
PostAnswersRequest == answer.kind = "post" => answer.got = answer.asked

=============================================================================
