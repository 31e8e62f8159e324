----------------------------- MODULE MCBookMeta -----------------------------
(* Eight contents of one book, with titles and authors of every kind the   *)
(* heuristics tell apart, under three paths.                               *)
EXTENDS BookMeta

Spelt(lower, fold, size, case) ==
  [lower |-> lower, fold |-> fold, size |-> size, case |-> case, digit |-> FALSE, latin |-> TRUE]

MCLex == [
  Stephen |-> Spelt("stephen", "stephen", 7, "upper"),
  King    |-> Spelt("king", "king", 4, "upper"),
  KING    |-> Spelt("king", "king", 4, "upper"),
  The     |-> Spelt("the", "the", 3, "upper"),
  the     |-> Spelt("the", "the", 3, "lower"),
  Dark    |-> Spelt("dark", "dark", 4, "upper"),
  Tower   |-> Spelt("tower", "tower", 5, "upper"),
  dark    |-> Spelt("dark", "dark", 4, "lower"),
  tower   |-> Spelt("tower", "tower", 5, "lower"),
  Rage    |-> Spelt("rage", "rage", 4, "upper"),
  by      |-> Spelt("by", "by", 2, "lower"),
  Novels  |-> Spelt("novels", "novels", 6, "upper"),
  english |-> Spelt("english", "english", 7, "lower"),
  Unknown |-> Spelt("unknown", "unknown", 7, "upper"),
  Hodder  |-> Spelt("hodder", "hodder", 6, "upper"),
  hodder  |-> Spelt("hodder", "hodder", 6, "lower"),
  one     |-> Spelt("one", "one", 1, "none"),
  two     |-> Spelt("two", "two", 1, "none")]

MCLists == [article |-> {"The", "the"}, particle |-> {}, nameParticle |-> {},
            credit |-> {}, publisher |-> {"Hodder", "hodder"}, organization |-> {},
            chapter |-> {}, generic |-> {"Novels", "Unknown"}, edition |-> {"english"}]
MCPlaceholders == {<<"unknown">>}
MCTitleArticle == [the |-> "The"]

MCTagOf == [en |-> "en", en_US |-> "en-US", und |-> "und"]
MCNoTag == {"und"}
MCISBN13 == [short |-> "isbn", long |-> "isbn"]
MCDateOf == [y1982 |-> "1982", y1982_06_10 |-> "1982-06-10"]

StephenKing == <<"Stephen", "King">>
DarkTower == <<"Dark", "Tower">>

(* A content with its title and authors, and publications and a series.    *)
File(title, authors_, publisher, date, series, index, subjects) ==
  [title |-> title, authors |-> authors_, description |-> title, publisher |-> publisher,
   date |-> date, series |-> series, index |-> index, subjects |-> subjects,
   languages |-> IF index = <<>> THEN <<"en_US", "und">> ELSE <<"en">>,
   identifiers |-> <<[scheme |-> "ISBN", source |-> {index},
                      value |-> IF date = "" THEN "short" ELSE "long"]>>]

MCMeta == [
  clean  |-> File(<<"The">> \o DarkTower, <<StephenKing>>, <<"Hodder">>, "y1982",
                  DarkTower, <<"one">>, <<<<"Rage">>>>),
  noisy  |-> File(StephenKing \o <<"-", "Rage">>, <<>>, <<"hodder">>, "circa",
                  <<"Rage">>, <<"two">>, <<<<"Dark">>, <<"Tower">>>>),
  stamp  |-> File(<<"dark", "_", "tower">>, <<<<"King", ",", "Stephen">>>>, <<"hodder">>, "",
                  <<>>, <<>>, <<<<"dark">>>>),
  nobody |-> File(<<"Unknown">>, <<<<"Unknown">>>>, <<>>, "y1982_06_10", DarkTower,
                  <<"two">>, <<>>),
  echo   |-> File(<<"Rage">>, <<<<"Rage">>>>, <<>>, "", <<>>, <<"one">>, <<>>),
  credit |-> File(<<"Unknown", "by">> \o StephenKing, <<StephenKing>>, <<>>, "", <<>>, <<>>,
                  <<>>),
  shout  |-> File(<<"the", "Dark", "Tower">>, <<<<"KING">>, StephenKing>>, <<"Hodder">>, "y1982",
                  <<"dark", "tower">>, <<"two">>, <<<<"rage">>>>),
  twice  |-> File(<<"King", "-", "Stephen", "-", "Rage", "by", "KING">>,
                  <<<<"King">>, StephenKing>>, <<>>, "", <<>>, <<>>, <<>>)]

MCPathOf == <<
  [dirs |-> <<<<"Novels">>, <<"King", ",", "Stephen", "english">>>>, stem |-> <<"Unknown">>],
  [dirs |-> <<>>, stem |-> DarkTower \o <<",", "The", "-", "King", ",", "Stephen">>],
  [dirs |-> <<StephenKing \o <<"-">> \o DarkTower>>,
   stem |-> StephenKing \o <<"-", "the", "Dark", "Tower">>]>>
=============================================================================
