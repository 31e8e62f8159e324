----------------------------- MODULE MCTextDocs -----------------------------
(* RTF that goes on from an open group, from a field of \info or behind a  *)
(* font table; four legacy encodings and a label nobody knows; PDFs of     *)
(* two blocks with up to four chunks of text.                              *)
EXTENDS TextDocs

Open == Token("{", "")
MCBeginnings == {
  <<Open>>,
  <<Open, Open, Token("dest", "info"), Open>>,
  <<Open, Open, Token("dest", "fonttbl"), Token("f", "f1"), Token("fcharset", "cp1253"),
    Token("}", "")>>}

Found(label, quality, lang, confidence) ==
  [label |-> label, quality |-> quality, lang |-> lang, confidence |-> confidence]
(* Text quality, confidence of the language and of the detector: the three *)
(* of gbk's, one of another label each, beat each other in a circle.       *)
MCResults ==
  {Found("x-odd", 90, 100, 60), Found("koi8-r", -1000, 0, 60), Found("koi8-r", 90, 0, 60),
   Found("koi8-r", 90, 100, 60), Found("cp1251", 90, 92, 60),
   Found("gbk", 90, 92, 20), Found("gbk", 70, 96, 20), Found("gbk", 50, 100, 20),
   Found("cp1251", 70, 96, 20), Found("cp1251", 50, 100, 20),
   Found("big5", 90, 92, 20), Found("big5", 50, 100, 20)}

MCTexts == UNION {[1..n -> {"blank", "text"}] : n \in 0..4}
=============================================================================
