---------------------------- MODULE MCImporter -----------------------------
(* A TLC instance of Importer: exports with every class of folder, names     *)
(* that match two rules, placemarks that share a spot, and every way a       *)
(* description ends.                                                         *)
EXTENDS Importer
CONSTANT BadDate

Mark(name, coordinates, text, lines) ==
  [name |-> name, coordinates |-> coordinates, text |-> text, lines |-> lines]
In(words, placemarks) == [words |-> words, placemarks |-> placemarks]

Pole == Mark("pole", <<300, 100>>, {"jesus saves", "sticker"}, <<<<12>>, <<>>, <<9, 11>>>>)
Sign == Mark("sign", <<310, 104>>, {}, <<<<11>>, <<>>, <<>>, <<>>, <<>>, <<>>>>)
Wall == Mark("wall", <<-300, -200>>, {"believe in jesus"}, <<<<12>>, <<11, BadDate>>>>)
Gate == Mark("gate", <<100, 300>>, {"jesus is coming", "barnacle"}, <<<<9>>>>)
Lost == Mark("lost", Garbled, {}, <<>>)

FiveDocuments ==
  {[folders |-> <<In({"reported", "jicr"}, <<Pole, Lost, Sign>>),
                  In({"reported", "removed"}, <<Wall>>),
                  In({"billboard", "reported"}, <<Gate>>)>>, loose |-> <<Wall>>],
   [folders |-> <<In({"plunder", "js"}, <<Gate, Sign>>)>>, loose |-> <<>>],
   [folders |-> <<In({"questionable legality"}, <<Pole>>), In({}, <<Sign>>)>>,
    loose |-> <<Gate, Pole>>],
   [folders |-> <<In({"reported"}, <<Lost, Gate>>), In({"reported", "js"}, <<Wall>>)>>,
    loose |-> <<>>],
   [folders |-> <<>>, loose |-> <<>>]}

TwoSpots == {[lat |-> 104, lon |-> 296], [lat |-> 0, lon |-> 0]}
=============================================================================
