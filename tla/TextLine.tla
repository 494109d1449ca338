-------------------------------- MODULE TextLine --------------------------------
(* How the lines of a text model are read (text-model-utils.ts): a line ends at
   a comment mark and is split at blanks, tabs and commas, and a word that
   JavaScript takes for a number is one.  None of this is escaped or refused in
   a name, so a name may be read as several words, or end its line.

   In a name an appended text that begins with a blank stands for a separator
   and the letters behind it, and "#" for any comment mark.  Something stands
   behind every separator, and no word of a name is a command, a kind of
   support or a material. *)
EXTENDS FrameModel, SequencesExt

AfterSeparator == [text \in {" ", " N"} |-> IF text = " " THEN "" ELSE "N"]
CommentMark == "#"

Breaks(id) ==
  {k \in DOMAIN id.tail : id.tail[k].text \in DOMAIN AfterSeparator \cup {CommentMark}}
IsWord(id) == Breaks(id) = {}

(* The rest of the line is a comment. *)
Marked(id) == \E k \in DOMAIN id.tail : id.tail[k].text = CommentMark

(* parseTextModelNumber: "3" is a number, "3-2" and "(3)" are not. *)
IsNumber(word) == word.stem = "" /\ word.n # 0 /\ word.tail = <<>>

(* The word that begins with the name, or behind its k-th appended text. *)
wordFrom(id, k) ==
  LET stops == {l \in Breaks(id) : l > k} \cup {Len(id.tail) + 1}
      stop == CHOOSE l \in stops : \A j \in stops : l <= j
  IN [stem |-> IF k = 0 THEN id.stem ELSE AfterSeparator[id.tail[k].text],
      n |-> IF k = 0 THEN id.n ELSE id.tail[k].n,
      tail |-> SubSeq(id.tail, k + 1, stop - 1)]

(* What is read of a name; nothing if it begins with a mark. *)
words(id) ==
  LET uncut == {k \in {0} \cup Breaks(id) : \A l \in 1..k : id.tail[l].text # CommentMark}
      starts == {k \in uncut : wordFrom(id, k) # NoId}
  IN IF IsWord(id) THEN <<id>>
     ELSE Each(Where([k \in 1..Len(id.tail) + 1 |-> k - 1], starts), LAMBDA k : wordFrom(id, k))

(* What is read of a line of names. *)
splitTextModelTokens(names) ==
  LET uncut == {k \in DOMAIN names : \A l \in 1..k - 1 : ~Marked(names[l])}
  IN FlattenSeq(Each(Picked(names, uncut), words))

token(tokens, k, fallback) == IF k \in DOMAIN tokens THEN tokens[k] ELSE fallback
=============================================================================
