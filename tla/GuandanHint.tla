----------------------------- MODULE GuandanHint -----------------------------
(***************************************************************************)
(* What a set of cards is worth in Guandan, what the page's hint makes of  *)
(* a hand (GuandanNoBeatHint) and what the server accepts as a play        *)
(* (validate_play_against_table): operators only, used by GuandanHand.     *)
(*                                                                         *)
(* A card is its suit and rank; a joker has the suit NoSuit.  Cards held   *)
(* or played are a function from any set of indexes to cards, so that a    *)
(* hand is a sequence and a choice from it is a restriction of it.         *)
(***************************************************************************)
EXTENDS Integers, FiniteSets, FiniteSetsExt, Sequences, SequencesExt, Functions

CONSTANT Level  \* the rank of the deal's level cards

ASSUME LevelAssumption == Level \in 2 .. 14

Hearts      == 3
Suits       == 0 .. Hearts  \* in the order of suitOrder
NoSuit      == 4
Ranks       == 2 .. 14
SmallJoker  == [suit |-> NoSuit, rank |-> 16]
BigJoker    == [suit |-> NoSuit, rank |-> 17]
Cards       == [suit : Suits, rank : Ranks] \cup {SmallJoker, BigJoker}

IsJoker(card) == card.suit = NoSuit
IsWild(card)  == card = [suit |-> Hearts, rank |-> Level]

Indexes(cards, Test(_)) == {i \in DOMAIN cards : Test(cards[i])}
Wild(cards)    == Indexes(cards, IsWild)
Jokers(cards)  == Indexes(cards, IsJoker)
Fixed(cards)   == Restrict(cards, DOMAIN cards \ Wild(cards))
(* A set as a sequence in a strict order of its members.                   *)
InOrder(set, Before(_, _)) ==
  [k \in 1 .. Cardinality(set) |->
     CHOOSE i \in set : Cardinality({j \in set : Before(j, i)}) = k - 1]

OfRank(cards, rank) == {i \in DOMAIN cards : cards[i].rank = rank}

-----------------------------------------------------------------------------
(* Patterns.                                                               *)

SameRank(n) == CASE n = 1 -> "single" [] n = 2 -> "pair" [] n = 3 -> "triple"
                 [] OTHER -> "bomb"

Runs     == {"straight", "straight_flush", "consecutive_pairs", "consecutive_triples"}
Bombs    == {"bomb", "straight_flush", "joker_bomb"}

Shape(pattern, main, ranks, copies) ==
  [pattern |-> pattern, main |-> main, needs |-> [r \in ranks |-> copies]]

(* The straight A2345 has the main rank 5.                                 *)
Straights ==
  {Shape("straight", r, r - 4 .. r, 1) : r \in 6 .. 14}
    \cup {Shape("straight", 5, {14} \cup 2 .. 5, 1)}

TriplesWithPair ==
  {[pattern |-> "triple_with_pair", main |-> p[1],
    needs |-> [r \in ToSet(p) |-> IF r = p[1] THEN 3 ELSE 2]] :
      p \in {q \in Ranks \X Ranks : q[1] # q[2]}}

RunsOfGroups ==
  {Shape("consecutive_pairs", r, r - 2 .. r, 2) : r \in 4 .. 14}
    \cup {Shape("consecutive_triples", r, {r - 1, r}, 3) : r \in 3 .. 14}

(* What n cards can be: the pattern, its main rank, and how many cards of  *)
(* which rank it needs.                                                    *)
Shapes(n) ==
  {Shape(SameRank(n), r, {r}, n) : r \in Ranks}
    \cup CASE n = 5 -> Straights \cup TriplesWithPair
           [] n = 6 -> RunsOfGroups
           [] OTHER -> {}

(* targetFits, of as many cards as the shape needs; a joker fits none.     *)
Fits(fixed, ranks, needs) ==
  /\ ranks \subseteq DOMAIN needs
  /\ \A r \in ranks : Cardinality(OfRank(fixed, r)) <= needs[r]

OneSuit(fixed) == \A i, j \in DOMAIN fixed : fixed[i].suit = fixed[j].suit

(* Four jokers of any kind are the joker bomb.  Fewer of one kind are a    *)
(* pattern of their own; five or more of one kind the page calls a bomb of *)
(* the rank null, which naturalRankValue makes 1.                          *)
OfJokers(cards) ==
  LET n    == Cardinality(DOMAIN cards)
      kind == {cards[i].rank : i \in DOMAIN cards}
  IN IF n = 4 THEN {[pattern |-> "joker_bomb", main |-> 14, count |-> 4]}
     ELSE IF Cardinality(kind) > 1 THEN {}
     ELSE {[pattern |-> SameRank(n), count |-> n,
            main |-> IF n > 4 THEN 1 ELSE CHOOSE r \in kind : TRUE]}

(* strengthsAtLevel: every reading of the cards, the wild cards standing   *)
(* for whatever a shape still needs; alone, a wild card is a level card.   *)
(* Without one, a straight of one suit is a straight flush only.           *)
Strengths(cards) ==
  LET n      == Cardinality(DOMAIN cards)
      fixed  == Fixed(cards)
      ranks  == {fixed[i].rank : i \in DOMAIN fixed}
      filled == {s \in Shapes(n) : Fits(fixed, ranks, s.needs)}
      Read(s, pattern) == [pattern |-> pattern, main |-> s.main, count |-> n]
      Flush(s) == s.pattern = "straight" /\ OneSuit(fixed)
  IN IF n = 0 THEN {}
     ELSE IF Jokers(cards) = DOMAIN cards THEN OfJokers(cards)
     ELSE IF n = 1 THEN {[pattern |-> "single", count |-> 1,
                          main |-> cards[CHOOSE i \in DOMAIN cards : TRUE].rank]}
     ELSE {Read(s, s.pattern) : s \in {t \in filled : Wild(cards) # {} \/ ~Flush(t)}}
            \cup {Read(s, "straight_flush") : s \in {t \in filled : Flush(t)}}

-----------------------------------------------------------------------------
(* Which play is the stronger.                                             *)

JokerBombTier == 1000

Tier(play) ==
  CASE play.pattern = "joker_bomb"     -> JokerBombTier
    [] play.pattern = "straight_flush" -> 5
    [] play.pattern = "bomb"           -> IF play.count <= 4 THEN 3
                                          ELSE IF play.count = 5 THEN 4 ELSE play.count
    [] OTHER                           -> 0

(* mainPower; of a run, sequencePower: a level card has its natural place. *)
Power(play) ==
  IF play.pattern \notin Runs /\ play.main = Level THEN 15 ELSE play.main

(* beats: no two patterns but a bomb of one card count share a tier above  *)
(* 0, and a joker bomb does not beat a joker bomb.                         *)
Beats(play, current) ==
  \/ Tier(play) > Tier(current)
  \/ /\ Tier(play) = Tier(current)
     /\ play.pattern = current.pattern /\ play.count = current.count
     /\ play.pattern # "joker_bomb"
     /\ Power(play) > Power(current)

(* Mutant of BeatsAll: one reading of the table beaten is enough.          *)
BeatsSome(play, readings) == \E current \in readings : Beats(play, current)

(* beatsAllTableInterpretations                                            *)
BeatsAll(play, readings) == \A current \in readings : Beats(play, current)

(* The server's strengths_at_level, said with the page's patterns: both    *)
(* read cards into one set of shapes with one tier, main rank and size     *)
(* each.  They differ in jokers of one kind: five of them are a bomb to    *)
(* the page, without a main rank, and no play to the server.               *)
Legal(cards) == {s \in Strengths(cards) : s.main > 1}

(* validate_play_against_table                                             *)
Accepts(cards, table) ==
  \E play \in Legal(cards) : \A current \in Legal(table) : Beats(play, current)

-----------------------------------------------------------------------------
(* The hint.                                                               *)

Tries(hand, sizes) == UNION {kSubset(n, DOMAIN hand) : n \in sizes \cap 0 .. Len(hand)}

(* Each rank of the hand with the wild cards after it, of which the first  *)
(* seven, eight and so on are tried as the larger bombs.                   *)
LargeGroups(hand) ==
  LET Prefix(group, wild, n) == ToSet(SubSeq(group \o wild, 1, n))
      Sorted(set) == InOrder(set, <)
      wild == Sorted(Wild(hand))
  IN UNION {LET group == Sorted(OfRank(hand, r) \ Wild(hand)) IN
              IF group = <<>> THEN {}
              ELSE {Prefix(group, wild, n) : n \in 7 .. Len(group \o wild)} :
                r \in Ranks}

(* Mutant of HasAnyBomb: straight flushes forgotten.                       *)
HasRankBomb(hand) ==
  LET wild == Cardinality(Wild(hand)) IN
  \/ Cardinality(Jokers(hand)) >= 4
  \/ \E r \in Ranks : LET held == Cardinality(OfRank(Fixed(hand), r)) IN
                        held > 0 /\ held + wild >= 4

HasAnyBomb(hand) ==
  LET wild  == Cardinality(Wild(hand))
      fixed == Fixed(hand)
      Held(suit, ranks) == {r \in ranks : \E i \in DOMAIN fixed :
                                            fixed[i] = [suit |-> suit, rank |-> r]}
  IN \/ Cardinality(Jokers(hand)) >= 4
     \/ \E r \in Ranks : LET held == Cardinality(OfRank(fixed, r)) IN
                           held > 0 /\ held + wild >= 4
     \/ \E suit \in Suits, s \in Straights :
          Cardinality(Held(suit, DOMAIN s.needs)) + wild >= 5

ReadsAsBomb(readings) == \E s \in readings : s.pattern \in Bombs

(* handCanBeat: an ordinary play is beaten by any bomb, else by a play of  *)
(* its size; a bomb by a play of four to six cards or a larger bomb.       *)
CanBeat(hand, table) ==
  LET readings == Strengths(table)
      bomb     == ReadsAsBomb(readings)
      tried    == IF bomb THEN Tries(hand, 4 .. 6) \cup LargeGroups(hand)
                  ELSE Tries(hand, {Cardinality(DOMAIN table)})
  IN \/ readings = {}
     \/ ~bomb /\ HasAnyBomb(hand)
     \/ \E chosen \in tried : \E s \in Strengths(Restrict(hand, chosen)) :
          BeatsAll(s, readings)

(* cardSortValue                                                           *)
SortValue(card) ==
  IF IsJoker(card) THEN 1000 + 100 * (card.rank - SmallJoker.rank)
  ELSE (IF card.rank = Level THEN 900 ELSE 10 * (card.rank - 2)) + card.suit

(* bombBreakPenalty: the groups of four or more that lose a card only.     *)
BombBreaks(hand, chosen) ==
  LET groups == {OfRank(hand, r) : r \in Ranks} \cup {Jokers(hand)}
  IN Cardinality({g \in groups : /\ Cardinality(g) >= 4
                                 /\ g \cap chosen # {} /\ ~(g \subseteq chosen)})

(* suggestionScore, smallest first.  What beats every reading of the table *)
(* has the table's own pattern unless it is a bomb.                        *)
Score(hand, chosen, play) ==
  LET bomb == play.pattern \in Bombs
  IN <<IF bomb THEN 1 ELSE 0,
       IF play.pattern \in {"bomb", "joker_bomb"} THEN 0 ELSE BombBreaks(hand, chosen),
       Cardinality(chosen \cap OfRank(hand, Level)),
       IF bomb THEN Tier(play) ELSE 0,
       Power(play),
       MapThenSumSet(LAMBDA i : SortValue(hand[i]), chosen)>>

(* compareSuggestionScores: the first entry that differs decides.          *)
Precedes(a, b) ==
  \E k \in DOMAIN a : a[k] < b[k] /\ \A j \in 1 .. k - 1 : a[j] = b[j]

Smallest(scored) ==
  {x \in scored : \A y \in scored : ~Precedes(y.score, x.score)}

(* findSuggestedIndexes: the choices of the smallest score; of several, as *)
(* with two cards alike, the first enumerated, left open here.             *)
Suggestions(hand, table) ==
  LET readings == Strengths(table)
      sizes    == 4 .. 6 \cup IF ReadsAsBomb(readings) THEN {}
                              ELSE {Cardinality(DOMAIN table)}
      Beating(chosen) == {s \in Strengths(Restrict(hand, chosen)) :
                            BeatsAll(s, readings)}
      scored   == UNION {{[chosen |-> c, score |-> Score(hand, c, s)] : s \in Beating(c)} :
                           c \in Tries(hand, sizes) \cup LargeGroups(hand)}
  IN IF readings = {} \/ scored = {} THEN {} ELSE {x.chosen : x \in Smallest(scored)}

=============================================================================
