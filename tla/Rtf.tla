--------------------------------- MODULE Rtf ---------------------------------
(***************************************************************************)
(* The RTF decoder of internal/parser/rtf/decode.go: groups, destinations, *)
(* the code pages of fonts, Unicode escapes with their fallback characters *)
(* and the \info block, over a stream of tokens.                           *)
(*                                                                         *)
(* A token is [is, n]: a brace, one character of text, one byte above      *)
(* ASCII, an escape or a control word with its parameter.  A decoded       *)
(* character is the position of its token and the code page it was read    *)
(* in: "" for none, "?" for a surrogate without its other half.            *)
(***************************************************************************)
EXTENDS Integers, Sequences, FiniteSets, SequencesExt

CONSTANTS
  Beginnings, (* how the documents begin: sequences of tokens              *)
  MaxTokens   (* bound on the tokens that follow                           *)

VARIABLES
  src, (* the document, as far as it was read                              *)
  beginning, (* how it begins                                              *)
  dec  (* textDecoder                                                      *)

rtfVars == <<src, beginning, dec>>

Token(is, n) == [is |-> is, n |-> n]
Count == [none |-> 0, two |-> 2] (* parameters of \uc *)

(***************************************************************************)
(* The decoder.  dest is copied into every group inside, so that of the    *)
(* innermost one decides about \info.                                      *)
(***************************************************************************)
Root == [uc |-> 1, font |-> "f0", skip |-> FALSE, hidden |-> FALSE, dest |-> "", field |-> ""]

NewTextDecoder ==
  [stack |-> <<Root>>, pending |-> <<>>, out |-> <<>>, skipChars |-> 0, highRune |-> 0,
   page |-> "cp1252", defaultFont |-> "f0", fonts |-> <<>>, info |-> <<>>]

top(d) == Last(d.stack)
inGroup(d) == Len(d.stack) > 1
SetTop(d, s) == [d EXCEPT !.stack = Front(@) \o <<s>>]
inInfo(d) == top(d).dest = "info"
infoBuilder(d) == IF inInfo(d) THEN top(d).field ELSE ""
Visible(d) == ~top(d).skip /\ ~top(d).hidden

write(d, chars) ==
  LET field == infoBuilder(d) IN
  [d EXCEPT !.info = IF field = "" THEN @ ELSE [@ EXCEPT ![field] = @ \o chars],
            !.out = IF Visible(d) THEN @ \o chars ELSE @]

(* The bytes kept back are decoded in the code page of the group's font.   *)
flushPending(d) ==
  LET font == top(d).font
      page == IF font \in DOMAIN d.fonts THEN d.fonts[font] ELSE d.page
  IN write([d EXCEPT !.pending = <<>>],
           [k \in DOMAIN d.pending |-> [at |-> d.pending[k], page |-> page]])

flushHighRune(d) ==
  IF d.highRune = 0 THEN d
  ELSE write([d EXCEPT !.highRune = 0], <<[at |-> d.highRune, page |-> "?"]>>)

emitString(d, at) == write(flushHighRune(flushPending(d)), <<[at |-> at, page |-> ""]>>)

(* A character that stands in for the \u before it is dropped.             *)
Fallback(d) == [d EXCEPT !.skipChars = @ - 1]

push(d) == [flushPending(d) EXCEPT !.stack = Append(@, Last(@)), !.skipChars = 0]

(* Mutant of pop: the bytes kept back are left to the group around.        *)
popUnflushed(d) ==
  IF ~inGroup(d) THEN flushPending(d)
  ELSE [d EXCEPT !.stack = Front(@), !.skipChars = 0]

pop(d) ==
  IF ~inGroup(d) THEN flushPending(d)
  ELSE [flushPending(d) EXCEPT !.stack = Front(@), !.skipChars = 0]

(* A character of text, or one that is escaped.                            *)
plainRun(d, at) == IF d.skipChars > 0 THEN Fallback(d) ELSE emitString(d, at)

highRun(d, at) ==
  IF d.skipChars > 0 THEN Fallback(d)
  ELSE IF infoBuilder(d) # "" \/ Visible(d) THEN [d EXCEPT !.pending = Append(@, at)] ELSE d

hexEscape(d, at) ==
  IF d.skipChars > 0 THEN Fallback(d) ELSE [d EXCEPT !.pending = Append(@, at)]

(* \u with one half of a pair, or with a character of its own.             *)
unicode(d, half, at) ==
  LET flushed == flushPending(d)
      read == IF half = "high" THEN [flushHighRune(flushed) EXCEPT !.highRune = at]
              ELSE IF half = "low" /\ d.highRune # 0
                THEN write([flushed EXCEPT !.highRune = 0], <<[at |-> at, page |-> ""]>>)
              ELSE write(flushHighRune(flushed), <<[at |-> at, page |-> ""]>>)
  IN [read EXCEPT !.skipChars = top(d).uc]

setFont(d, font) ==
  IF top(d).font = font THEN d
  ELSE LET f == flushPending(d) IN SetTop(f, [top(f) EXCEPT !.font = font])

setHidden(d, on) ==
  LET f == flushPending(d) IN SetTop(f, [top(f) EXCEPT !.hidden = on])

(* \*, a destination without text, or \info; at the root they say nothing. *)
setDest(d, dest) ==
  LET f == flushPending(d) IN
  IF ~inGroup(d) THEN IF dest = "*" THEN f ELSE d
  ELSE SetTop(f, [top(f) EXCEPT !.skip = TRUE, !.dest = dest,
                                !.font = IF dest = "fonttbl" THEN "none" ELSE @])

(* The first field of a name counts.                                       *)
startInfoField(d, name) ==
  IF ~inInfo(d) THEN d
  ELSE IF name \in DOMAIN d.info THEN SetTop(d, [top(d) EXCEPT !.field = ""])
  ELSE [SetTop(d, [top(d) EXCEPT !.field = name])
          EXCEPT !.info = [n \in {name} |-> <<>>] @@ @]

setCharset(d, page) ==
  IF top(d).dest = "fonttbl" /\ top(d).font # "none"
  THEN [d EXCEPT !.fonts = [n \in {top(d).font} |-> page] @@ @] ELSE d

finish(d) == flushHighRune(flushPending(d))

(***************************************************************************)
(* One action for each kind of token the document may go on with.          *)
(***************************************************************************)
Reads(t, d) ==
  LET n == Len(src) + 1 IN
  /\ n <= Len(beginning) + MaxTokens
  /\ n <= Len(beginning) => beginning[n] = t
  /\ src' = Append(src, t) /\ dec' = d /\ UNCHANGED beginning

Here == Len(src) + 1

OpenGroup == Reads(Token("{", ""), push(dec))
CloseGroup == Reads(Token("}", ""), pop(dec))
Character == Reads(Token("a", ""), plainRun(dec, Here))
HighByte == Reads(Token("byte", ""), highRun(dec, Here))
HexByte == Reads(Token("hex", ""), hexEscape(dec, Here))
Paragraph == Reads(Token("par", ""), emitString(dec, Here))
Unicode == \E half \in {"high", "low", "none"} : Reads(Token("u", half), unicode(dec, half, Here))
FallbackCount ==
  \E n \in DOMAIN Count :
    Reads(Token("uc", n), [SetTop(dec, [top(dec) EXCEPT !.uc = Count[n]]) EXCEPT !.skipChars = 0])
(* \bin, and in the same way a \- that is dropped as a fallback.           *)
Binary == Reads(Token("bin", ""), IF dec.skipChars > 0 THEN Fallback(dec) ELSE dec)
Hidden == \E on \in {"on", "off"} : Reads(Token("v", on), setHidden(dec, on = "on"))
Destination ==
  \E name \in {"*", "pict", "fonttbl", "info"} : Reads(Token("dest", name), setDest(dec, name))
(* A field begins its group, as RTF has it; elsewhere it would get the     *)
(* bytes that were kept back before it.                                    *)
InfoField ==
  /\ src # <<>> /\ Last(src).is = "{"
  /\ Reads(Token("field", "title"), startInfoField(dec, "title"))
Font == \E n \in {"f0", "f1"} : Reads(Token("f", n), setFont(dec, n))
PlainFont == Reads(Token("plain", ""), setFont(dec, dec.defaultFont))
DefaultFont ==
  LET d == flushPending(dec) IN
  Reads(Token("deff", "f1"), SetTop([d EXCEPT !.defaultFont = "f1"], [top(d) EXCEPT !.font = "f1"]))
CodePage == Reads(Token("ansicpg", "cp1250"), [flushPending(dec) EXCEPT !.page = "cp1250"])
Charset == Reads(Token("fcharset", "cp1253"), setCharset(dec, "cp1253"))

RtfInit == src = <<>> /\ beginning \in Beginnings /\ dec = NewTextDecoder

RtfNext ==
  \/ OpenGroup \/ CloseGroup \/ Character \/ HighByte \/ HexByte \/ Paragraph \/ Unicode
  \/ FallbackCount \/ Binary \/ Hidden \/ Destination \/ InfoField \/ Font \/ PlainFont
  \/ DefaultFont \/ CodePage \/ Charset

-----------------------------------------------------------------------------
(***************************************************************************)
(* What the text of a document is, from where its tokens stand and without *)
(* a stack or anything kept back.                                          *)
(***************************************************************************)
(* The number of groups around each position.                              *)
Depths ==
  LET d[i \in 0..Len(src)] ==
        IF i = 0 THEN 0
        ELSE IF src[i].is = "{" THEN d[i-1] + 1
        ELSE IF src[i].is = "}" /\ d[i-1] > 0 THEN d[i-1] - 1 ELSE d[i-1]
  IN [i \in DOMAIN src |-> d[i-1]]

(* A reading of the document: what holds at i, by the tokens before it in  *)
(* the groups around it.                                                   *)
Reading ==
  LET depth == Depths
      InForce(k, i) == k < i /\ \A j \in k..i : depth[j] >= depth[k]
      LastOf(set) == IF set = {} THEN 0 ELSE CHOOSE k \in set : \A j \in set : j <= k
      Latest(i, kinds) == LastOf({k \in 1..i-1 : src[k].is \in kinds /\ InForce(k, i)})
      Before(i, kinds) == LastOf({k \in 1..i-1 : src[k].is \in kinds})
      dest == [i \in DOMAIN src |->
                LET k == LastOf({j \in 1..i-1 : src[j].is = "dest" /\ depth[j] > 0 /\ InForce(j, i)})
                IN IF k = 0 THEN "" ELSE src[k].n]
      hidden == [i \in DOMAIN src |-> LET k == Latest(i, {"v"}) IN k # 0 /\ src[k].n = "on"]
      default == [i \in DOMAIN src |-> IF Before(i, {"deff"}) = 0 THEN "f0" ELSE "f1"]
      IsFont(j) == \/ src[j].is \in {"f", "plain", "deff"}
                   \/ src[j] = Token("dest", "fonttbl") /\ depth[j] > 0
      font == [i \in DOMAIN src |->
                LET k == LastOf({j \in 1..i-1 : IsFont(j) /\ InForce(j, i)}) IN
                IF k = 0 THEN "f0"
                ELSE IF src[k].is = "plain" THEN default[k]
                ELSE IF src[k].is = "dest" THEN "none" ELSE src[k].n]
      page == [i \in DOMAIN src |->
                LET k == LastOf({j \in 1..i-1 : /\ src[j].is = "fcharset" /\ dest[j] = "fonttbl"
                                                /\ font[j] = font[i] /\ font[j] # "none"})
                IN IF k # 0 THEN src[k].n
                   ELSE IF Before(i, {"ansicpg"}) = 0 THEN "cp1252" ELSE "cp1250"]
      Counted == {"a", "byte", "hex", "bin"}
      fallback == [i \in DOMAIN src |->
                LET k == LastOf({j \in 1..i-1 :
                            src[j].is \in {"u", "uc", "{"} \/ (src[j].is = "}" /\ depth[j] > 0)})
                    uc == Latest(k, {"uc"})
                    n == IF uc = 0 THEN 1 ELSE Count[src[uc].n]
                IN /\ k # 0 /\ src[k].is = "u" /\ src[i].is \in Counted
                   /\ Cardinality({j \in k+1..i-1 : src[j].is \in Counted}) < n]
      IsText(i) == /\ src[i].is \in {"a", "byte", "hex", "par", "u"} /\ ~fallback[i]
                   /\ src[i] # Token("u", "high")
      Field(i) == LET k == Latest(i, {"field"}) IN
                  /\ dest[i] = "info" /\ k # 0 /\ dest[k] = "info"
                  /\ \A j \in 1..k-1 : ~(src[j].is = "field" /\ dest[j] = "info")
      Char(i) == [at |-> i, page |-> IF src[i].is \in {"byte", "hex"} THEN page[i] ELSE ""]
      Chars(Shows(_)) == LET at == SelectSeq([i \in DOMAIN src |-> i], Shows) IN
                         [k \in DOMAIN at |-> Char(at[k])]
  IN [text |-> Chars(LAMBDA i : IsText(i) /\ dest[i] = "" /\ ~hidden[i]),
      title |-> Chars(LAMBDA i : IsText(i) /\ Field(i)),
      paired |-> \A i \in DOMAIN src : src[i] = Token("u", "high") =>
                   \E j \in i+1..Len(src) : /\ src[j] = Token("u", "low")
                                            /\ \A k \in i+1..j-1 : fallback[k]]

(* What the decoder puts out is the text of the document: every character  *)
(* outside of the destinations and not hidden, once, in its place, in the  *)
(* code page in force where it stands; and the title is the first one in   *)
(* \info.  Halves of a pair that are not together are excepted: they leave *)
(* their place and their group (flushHighRune).                            *)
DecodedRight ==
  LET r == Reading  d == finish(dec) IN
  r.paired => /\ d.out = r.text
              /\ (IF "title" \in DOMAIN d.info THEN d.info["title"] ELSE <<>>) = r.title
=============================================================================
