----------------------------- MODULE Validators -----------------------------
(***************************************************************************)
(* The validator set of redt/redt.go and the choice of the next proposer.  *)
(* The consensus algorithm takes turns in the order of the addresses'      *)
(* texts, in which each letter is a capital or a small one as the checksum *)
(* of the address demands, and capitals come before small letters.         *)
(***************************************************************************)
EXTENDS Integers, Sequences, FiniteSets

CONSTANTS
    Validators,   \* the authors and sealers of all blocks
    Digits,       \* per validator: the hexadecimal digits of its address
    Capital       \* per validator: which of them the checksum makes capitals

ASSUME AddressesAssumption ==
    /\ \A w \in Validators : /\ Digits[w] \in Seq(0..15)
                             /\ Capital[w] \in [DOMAIN Digits[w] -> BOOLEAN]
    /\ \A v, w \in Validators : /\ Len(Digits[v]) = Len(Digits[w])
                                /\ Digits[v] = Digits[w] => v = w

\* common.Address.String: the codes of 0..9, A..F and a..f.
CharCode(digit, capital) ==
    IF digit < 10 THEN 48 + digit ELSE IF capital THEN 55 + digit ELSE 87 + digit
BugLowerCase(w) == [k \in DOMAIN Digits[w] |-> CharCode(Digits[w][k], FALSE)]
AddressText(w) == [k \in DOMAIN Digits[w] |-> CharCode(Digits[w][k], Capital[w][k])]

\* sort.Strings, for texts of one length.
TextBefore(s, t) ==
    \E k \in DOMAIN s : s[k] < t[k] /\ \A j \in 1..(k - 1) : s[j] = t[j]

\* The orders in which the node may return a set of validators.
Orders(S) ==
    {s \in [1..Cardinality(S) -> S] : \A j, k \in DOMAIN s : j # k => s[j] # s[k]}

\* What getValSet makes of any of them, as a set of one sequence.
getValSet(S) ==
    {s \in Orders(S) : \A j, k \in DOMAIN s :
                          j < k => TextBefore(AddressText(s[j]), AddressText(s[k]))}

\* An author that is not in the set leaves nextIndex zero.
NextProposer(valSet, author) ==
    LET At == {k \in DOMAIN valSet : valSet[k] = author}
    IN  IF At = {} THEN valSet[1]
                   ELSE valSet[((CHOOSE k \in At : TRUE) % Len(valSet)) + 1]

-----------------------------------------------------------------------------
(* The turns of the consensus algorithm, defined without sorting           *)

\* The place of an address in the turns, with its text as a number: ten digits,
\* then the capitals, then the small letters.
Rank(w, k) == IF Digits[w][k] < 10 \/ Capital[w][k] THEN Digits[w][k] ELSE Digits[w][k] + 6
Values(w) ==
    LET value[k \in 0..Len(Digits[w])] == IF k = 0 THEN 0 ELSE 22 * value[k - 1] + Rank(w, k)
    IN  value
Place(w) == Values(w)[Len(Digits[w])]

\* In a set, the turn of next comes after the author's: the following place in it,
\* or the first one.
TurnFollows(S, author, next) ==
    LET Later == {w \in S : Place(w) > Place(author)}
        Candidates == IF Later = {} THEN S ELSE Later
    IN  /\ next \in Candidates
        /\ \A w \in Candidates : Place(next) <= Place(w)

=============================================================================
