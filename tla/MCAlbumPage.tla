----------------------------- MODULE MCAlbumPage -----------------------------
(***************************************************************************)
(* An instance of AlbumPage for TLC.                                       *)
(***************************************************************************)
EXTENDS AlbumPage

CONSTANTS u1, u2, u3, v1, s1, s2

(* One upload of two files, the others of one file.                        *)
TwoThenOne == [u \in Uploads |-> IF u = u1 THEN 2 ELSE 1]

(* The names of two albums, word by word.                                  *)
Plain  == <<"album">>
Spaced == <<"my", " ", "album">>
SpaceEscaped == [c \in {" "} |-> "%20"]

Visit(a, us, ss, cs, es, vs, m, n) ==
  [album |-> a, uploads |-> us, selections |-> ss, clicks |-> cs, elsewhere |-> es,
   views |-> vs, menu |-> m, faults |-> n]

(* Two uploads of the page next to each other; one upload while the files  *)
(* are chosen anew; one upload and two clicks on crosses; one upload, a    *)
(* click and a view, with the menu; an upload, a click and a removal by    *)
(* another client; an upload next to that of another client; pictures of   *)
(* another client, removed and viewed here and there; and once more an     *)
(* upload next to that of another client, in an album with a space.        *)
EightVisits ==
  { Visit(Plain, {u1, u2}, {s1}, {}, {}, {}, FALSE, 1),
    Visit(Plain, {u1}, {s1, s2}, {}, {}, {}, TRUE, 1),
    Visit(Plain, {u1}, {s1}, {1, 2}, {}, {}, FALSE, 1),
    Visit(Plain, {u1}, {s1}, {1}, {}, {v1}, TRUE, 1),
    Visit(Plain, {u1}, {s1}, {1}, {2}, {}, FALSE, 1),
    Visit(Plain, {u1, u3}, {s1}, {1}, {}, {}, FALSE, 1),
    Visit(Plain, {u3}, {}, {1, 2}, {3}, {v1}, TRUE, 2),
    Visit(Spaced, {u1, u3}, {s1}, {1}, {}, {}, FALSE, 0) }
=============================================================================
