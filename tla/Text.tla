-------------------------------- MODULE Text --------------------------------
(***************************************************************************)
(* Titles, names and file names as the heuristics of internal/report and   *)
(* internal/metaheur see them: sequences of words and separators.  What    *)
(* the code asks of a word (its size, its capital, the word lists it is    *)
(* on) is a parameter; the lists themselves are data.                      *)
(*                                                                         *)
(* Whitespace is laid out already (normalizeMeta).  "," ":" "?" "." stand  *)
(* at the end of the word before them, "_" joins two words, "-" "--" "---" *)
(* are the hyphen, the en and the em dash between spaces.  Hyphens inside  *)
(* words, quotes and brackets are left out.                                *)
(***************************************************************************)
EXTENDS Naturals, Integers, Sequences, FiniteSets, SequencesExt, FiniteSetsExt

CONSTANTS
  Lex,     (* of each word: lower, fold (its lower-cased and its folded    *)
           (* spelling), size in runes, case ("upper" when it begins with  *)
           (* a capital, "lower", "none"), digit, latin                    *)
  Lists,   (* the word lists: article, particle, nameParticle, credit,     *)
           (* publisher, organization, chapter, generic, edition           *)
  PlaceholderTitles, PlaceholderAuthors (* folded texts                    *)

Word == DOMAIN Lex
Mark == {",", ":", "?", "."}
Dashes == <<"-", "--", "---">>
Dash == ToSet(Dashes)
Separator == Mark \cup Dash \cup {"_"}

ASSUME TextAssumption ==
  /\ Word \cap Separator = {}
  /\ \A w \in Word : Lex[w].size \in Nat \ {0}
  /\ \A l \in DOMAIN Lists : Lists[l] \subseteq Word

(* Words that differ in case only are alike once they are folded.          *)
ASSUME CaseAssumption ==
  \A v \in Word :
    /\ Lex[v].lower \notin Separator
    /\ \A w \in Word : Lex[v].lower = Lex[w].lower =>
         /\ Lex[v].fold = Lex[w].fold /\ Lex[v].size = Lex[w].size
         /\ v \in Lists["nameParticle"] <=> w \in Lists["nameParticle"]

(* The elements of a sequence that are in a set, in their order.           *)
Only(s, set) ==
  FoldLeft(LAMBDA kept, x : IF x \in set THEN Append(kept, x) ELSE kept, <<>>, s)

On(list, w) == w \in Word /\ w \in Lists[list]

(***************************************************************************)
(* Keys.  metaKey lower-cases, foldName drops the diacritics as well.      *)
(***************************************************************************)
metaKey(t) == [i \in DOMAIN t |-> IF t[i] \in Word THEN Lex[t[i]].lower ELSE t[i]]
foldName(t) == [i \in DOMAIN t |-> IF t[i] \in Word THEN Lex[t[i]].fold ELSE t[i]]

isPlaceholderTitle(t) == t = <<>> \/ foldName(t) \in PlaceholderTitles
isPlaceholderAuthor(t) == t = <<>> \/ foldName(t) \in PlaceholderAuthors

(* Positions i and i+1 are not separated by a space.                       *)
Joined(t, i) == i \in 1..Len(t)-1 /\ (t[i+1] \in Mark \cup {"_"} \/ t[i] = "_")

SizeAt(t, i) == (IF t[i] \in Word THEN Lex[t[i]].size ELSE 1)
                + IF i = Len(t) \/ Joined(t, i) THEN 0 ELSE 1
runeLen(t) == MapThenSumSet(LAMBDA i : SizeAt(t, i), DOMAIN t)
Underscores(t) == Cardinality({i \in DOMAIN t : t[i] = "_"})

(* strings.Fields of a text, and of one without underscores the fields     *)
(* themselves, trimmed of punctuation (trimWord).                          *)
FieldCount(t) == Cardinality({i \in DOMAIN t : ~Joined(t, i)})
Fields(t) == Only(t, ToSet(t) \ Mark)

(* The distinctive words of a name: longer than two runes, no particles.   *)
matchTokens(t) ==
  {Lex[t[i]].fold : i \in {j \in DOMAIN t : /\ t[j] \in Word /\ Lex[t[j]].size > 2
                                            /\ ~On("nameParticle", t[j])}}

(* a occurs in b as a phrase of whole words.                               *)
Phrase(a, b) ==
  \E i \in 0..Len(b) - Len(a) :
    /\ SubSeq(b, i + 1, i + Len(a)) = a
    /\ ~Joined(b, i) /\ ~Joined(b, i + Len(a))

titlesAgree(a, b) ==
  LET fa == foldName(a)  fb == foldName(b) IN
  /\ fa # <<>> /\ fb # <<>>
  /\ \/ fa = fb
     \/ /\ FieldCount(fa) >= 2 /\ FieldCount(fb) >= 2
        /\ Phrase(fa, fb) \/ Phrase(fb, fa)

isTitleEcho(name, title) == name # <<>> /\ foldName(name) = foldName(title)

containsGenericPathWord(t) == \E i \in DOMAIN t : On("generic", t[i])
=============================================================================
