------------------------------- MODULE Stream -------------------------------
(***************************************************************************)
(* The searches of core/Stream.cpp: findMulti and findUntil (find is       *)
(* findUntil without a terminator) over the bytes timedRead delivers, one  *)
(* step per byte.  A timeout, and for findUntil a zero byte, may come at   *)
(* any time.  C's str[i] is str[i + 1] here.                                *)
(***************************************************************************)
EXTENDS Integers, Sequences
Sets == INSTANCE FiniteSetsExt \* Max
Seqs == INSTANCE SequencesExt  \* IsSuffix

CONSTANTS Char,      \* what a byte of a string or of the input may be
          MaxString, \* bound: the length of the strings looked for
          MaxHeard   \* bound: how many bytes arrive

ASSUME StreamAssumption == Char # {} /\ MaxString \in Nat /\ MaxHeard \in Nat

VARIABLES search, \* the call: call, strs (findMulti's targets; target and
                  \* terminator of findUntil), index (how much of each is
                  \* matched), result
          heard   \* history: the bytes read so far

searchVars == <<search, heard>>

Strings == UNION {[1 .. n -> Char] : n \in 0 .. MaxString}

SearchTypeOK ==
  /\ search \in [call : {"findMulti", "findUntil"}, strs : [1 .. 2 -> Strings],
                 index : [1 .. 2 -> 0 .. MaxString],
                 result : {"none", "first", "second", "terminated", "gaveup"}]
  /\ heard \in Seq(Char) /\ Len(heard) <= MaxHeard

SearchInit ==
  /\ search \in [call : {"findMulti", "findUntil"}, strs : [1 .. 2 -> Strings],
                 index : {[n \in 1 .. 2 |-> 0]}, result : {"none"}]
  /\ heard = <<>>

InCall(name) == search.call = name /\ search.result = "none"

\* A zero-length target is found before a byte is read (lines 83 and 255).
FindsEmptyString ==
  /\ search.result = "none" /\ heard = <<>>
  /\ \/ search.strs[1] = <<>> /\ search' = [search EXCEPT !.result = "first"]
     \/ /\ search.call = "findMulti" /\ search.strs[1] # <<>> /\ search.strs[2] = <<>>
        /\ search' = [search EXCEPT !.result = "second"]
  /\ UNCHANGED heard

\* timedRead has nothing for the length of the timeout, or findUntil reads a 0.
GivesUp ==
  /\ search.result = "none"
  /\ search' = [search EXCEPT !.result = "gaveup"]
  /\ UNCHANGED heard

Reads(c) == Len(heard) < MaxHeard /\ heard' = Append(heard, c)

-----------------------------------------------------------------------------
(* findMulti *)

\* Mutant: only the current byte is compared at the shorter index.
ShorterByByte(str, index, c) == {j \in 0 .. index - 1 : c = str[j + 1]}

\* The shorter indexes the inner loop accepts: c continues them, and what was
\* matched ends with them.
Shorter(str, index, c) ==
  {j \in 0 .. index - 1 : /\ c = str[j + 1]
                          /\ \A i \in 1 .. j : str[i] = str[i + index - j]}

\* How much of one target is matched after c; the loop takes the first
\* shorter index from above.
MultiIndex(str, index, c) ==
  IF c = str[index + 1] THEN index + 1
  ELSE LET shorter == Shorter(str, index, c)
       IN IF shorter = {} THEN 0 ELSE Sets!Max(shorter) + 1

\* One byte, offered to the targets in turn; the first one complete returns.
MultiHears(c) ==
  /\ InCall("findMulti") /\ \A n \in 1 .. 2 : search.strs[n] # <<>>
  /\ Reads(c)
  /\ LET index == [n \in 1 .. 2 |-> MultiIndex(search.strs[n], search.index[n], c)]
         complete == {n \in 1 .. 2 : index[n] = Len(search.strs[n])}
     IN search' = CASE 1 \in complete ->
                         [search EXCEPT !.index[1] = index[1], !.result = "first"]
                    [] complete = {2} ->
                         [search EXCEPT !.index = index, !.result = "second"]
                    [] OTHER -> [search EXCEPT !.index = index]

-----------------------------------------------------------------------------
(* findUntil *)

\* Mutant: the byte that broke the match is not tried as the first one.
UntilIndexDropsByte(str, index, c) == IF c = str[index + 1] THEN index + 1 ELSE 0

\* A byte that does not match resets the index and is tried once more.
UntilIndex(str, index, c) ==
  LET i == IF c = str[index + 1] THEN index ELSE 0
  IN IF c = str[i + 1] THEN i + 1 ELSE i

\* The terminator's index is reset without a second try.
TermIndex(term, index, c) ==
  IF term # <<>> /\ c = term[index + 1] THEN index + 1 ELSE 0

UntilHears(c) ==
  /\ InCall("findUntil") /\ search.strs[1] # <<>>
  /\ Reads(c)
  /\ LET index == UntilIndex(search.strs[1], search.index[1], c)
         term == TermIndex(search.strs[2], search.index[2], c)
     IN search' = CASE index = Len(search.strs[1]) ->
                         [search EXCEPT !.index[1] = index, !.result = "first"]
                    [] index < Len(search.strs[1]) /\ term > 0 /\ term = Len(search.strs[2]) ->
                         [search EXCEPT !.index = <<index, term>>, !.result = "terminated"]
                    [] OTHER -> [search EXCEPT !.index = <<index, term>>]

SearchNext == \/ FindsEmptyString \/ GivesUp
              \/ \E c \in Char : MultiHears(c) \/ UntilHears(c)

SearchSpec == SearchInit /\ [][SearchNext]_searchVars

-----------------------------------------------------------------------------
(* Properties. *)

\* The string occurs in what has been read, and where it first ends.
EndsAt(str) == {n \in 0 .. Len(heard) : Seqs!IsSuffix(str, SubSeq(heard, 1, n))}
Occurs(str) == EndsAt(str) # {}

\* findMulti returns at the byte that completes an occurrence of a target, the
\* first one of all, with the lower target where two end together, and gives
\* up only if there was none, however the targets overlap themselves
\* (Stream.cpp:274: 1112 in 11112).
MultiFindsTheFirst ==
  search.call = "findMulti" /\ heard # <<>> =>
    LET ended == {n \in 1 .. 2 : Occurs(search.strs[n])}
    IN /\ search.result \in {"none", "gaveup"} <=> ended = {}
       /\ \A n \in ended : EndsAt(search.strs[n]) = {Len(heard)}
       /\ search.result = "first" <=> 1 \in ended
       /\ search.result = "second" <=> ended = {2}

\* A string whose first byte does not come again in it.
StartsOnce(str) == \A i \in 2 .. Len(str) : str[i] # str[1]

\* findUntil reports a string only where that string ends, and the only
\* targets it can read over are those whose first byte comes again in them:
\* aab is missed in aaab.
FindMissesOnlyRepeats ==
  search.call = "findUntil" /\ heard # <<>> =>
    /\ search.result = "first" => Seqs!IsSuffix(search.strs[1], heard)
    /\ search.result = "terminated" => Seqs!IsSuffix(search.strs[2], heard)
    /\ StartsOnce(search.strs[1]) /\ Occurs(search.strs[1]) =>
         search.result = "first" /\ EndsAt(search.strs[1]) = {Len(heard)}
=============================================================================
