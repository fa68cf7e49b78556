--------------------------- MODULE CheckpointFile ---------------------------
(***************************************************************************)
(* The file of a checkpoint (src/internal/checkpoint/checkpoint.go): how   *)
(* `nexus checkpoint save` writes it, piece by piece, and how restoring    *)
(* and inspecting read it, whatever happened to the file in between.       *)
(*                                                                         *)
(* A file is a sequence of pieces.  A plain one is a compressed archive,   *)
(* and a piece is one of its cells; an encrypted one begins with a magic   *)
(* number and a salt, and its frames hold FrameSize cells each.  The last  *)
(* cells are the end of the archive and the checksum of its compression.   *)
(***************************************************************************)
EXTENDS Naturals, Sequences, Functions

CONSTANTS
  Sessions,     \* what is saved: conversations, with their memory and context
  Passphrases, NoKey,
  Weights,      \* the cells that the weights of the model take
  FrameSize,
  Other,        \* what damaged data reads as
  MaxSaves

CheckpointFileAssumption ==
  /\ NoKey \notin Passphrases /\ Other \notin Sessions /\ FrameSize \in Nat \ {0}
  /\ Weights \in Seq(Range(Weights)) /\ MaxSaves \in Nat

VARIABLES
  file,      \* its pieces
  pending,   \* pieces that the save under way has still to write
  saved,     \* what the last save was of, and how
  damaged,   \* what happened to the file: "cut", "mixed", "flipped"
  weights,   \* cells of the weights in the store's folder `restored`
  reader,    \* a restore or an inspection under way
  outcome    \* of the last one

vars == <<file, pending, saved, damaged, weights, reader, outcome>>

Entries == {"manifest", "conversation", "memory", "context"}
Cell(entry, of) == [entry |-> entry, of |-> of]

(* The archive.  The manifest comes first and says what is to come.        *)
Archive(s) ==
  <<Cell("manifest", s.session), Cell("conversation", s.session),
    Cell("memory", s.session), Cell("context", s.session)>>
    \o (IF s.seal THEN [i \in DOMAIN Weights |-> Cell("weights", Weights[i])] ELSE <<>>)
    \o <<Cell("end", s.session), Cell("sum", s.session)>>

Piece(kind, i, key, cells) ==
  [kind |-> kind, index |-> i, key |-> key, cells |-> cells, is |-> "whole"]

(* stateKey: from the passphrase and the salt; older files have no salt.   *)
StateKey(pass, salt) == <<pass, salt>>

Frames(cells, key) ==
  [i \in 1 .. (Len(cells) + FrameSize - 1) \div FrameSize |->
     LET upTo == i * FrameSize IN
     Piece("frame", i - 1, key,
           SubSeq(cells, upTo - FrameSize + 1, IF upTo < Len(cells) THEN upTo ELSE Len(cells)))]

Plain(cells) == [i \in DOMAIN cells |-> Piece("plain", i - 1, <<>>, <<cells[i]>>)]

Pieces(s, salt) ==
  IF s.pass = NoKey THEN Plain(Archive(s))
  ELSE <<Piece("magic", 0, <<>>, <<>>), Piece("salt", salt, <<>>, <<>>)>>
         \o Frames(Archive(s), StateKey(s.pass, salt))

Legacy(s) ==
  <<Piece("oldMagic", 0, <<>>, <<>>)>> \o Frames(Archive(s), StateKey(s.pass, 0))

-----------------------------------------------------------------------------
Nothing == [session |-> Other, seal |-> FALSE, pass |-> NoKey, by |-> 0]
Intact == pending = <<>> /\ damaged = {} /\ saved # Nothing

Nowhere == [on |-> FALSE, all |-> FALSE, intact |-> FALSE, key |-> <<>>, at |-> 0, frames |-> 0,
            buf |-> <<>>, got |-> [e \in {} |-> Other], extracts |-> FALSE]
NoOutcome == [is |-> "none", why |-> "", with |-> NoKey, intact |-> FALSE, got |-> [e \in {} |-> Other]]

(* There is no file, or one that an older build encrypted.                 *)
Init ==
  /\ \/ file = <<>> /\ saved = Nothing
     \/ \E s \in Sessions, p \in Passphrases :
          /\ saved = [session |-> s, seal |-> FALSE, pass |-> p, by |-> 0]
          /\ file = Legacy(saved)
  /\ pending = <<>> /\ damaged = {} /\ weights = <<>>
  /\ reader = Nowhere /\ outcome = NoOutcome

(* The command opens the file with O_TRUNC; what it writes follows.        *)
Save(s, seal, pass) ==
  /\ pending = <<>> /\ ~reader.on /\ outcome = NoOutcome /\ saved.by < MaxSaves
  /\ saved' = [session |-> s, seal |-> seal, pass |-> pass, by |-> saved.by + 1]
  /\ file' = <<>> /\ pending' = Pieces(saved', saved.by + 1)
  /\ damaged' = {}
  /\ UNCHANGED <<weights, reader, outcome>>

WriteMore ==
  /\ pending # <<>>
  /\ file' = Append(file, Head(pending)) /\ pending' = Tail(pending)
  /\ UNCHANGED <<saved, damaged, weights, reader, outcome>>

(* The save fails or is killed, within a piece or after one.               *)
SaveStops ==
  /\ pending # <<>>
  /\ \/ file' = file
     \/ file' = Append(file, [Head(pending) EXCEPT !.is = "part"])
  /\ pending' = <<>> /\ damaged' = damaged \cup {"cut"}
  /\ UNCHANGED <<saved, weights, reader, outcome>>

(* The file is carried elsewhere, and one thing happens to it: it is cut,  *)
(* a piece of it changes, or the frames of an encrypted one change places. *)
Happens(kind, to) == file' = to /\ damaged' = damaged \cup {kind}

Carry ==
  /\ pending = <<>> /\ ~reader.on /\ outcome = NoOutcome /\ damaged = {}
  /\ \E i \in DOMAIN file :
       \/ Happens("cut", SubSeq(file, 1, i - 1))
       \/ Happens("cut", Append(SubSeq(file, 1, i - 1), [file[i] EXCEPT !.is = "part"]))
       \/ Happens("flipped", [file EXCEPT ![i].is = "flipped"])
       \/ /\ file[i].kind = "frame"
          /\ \/ Happens("mixed", SubSeq(file, 1, i - 1) \o SubSeq(file, i + 1, Len(file)))
             \/ \E j \in i + 1 .. Len(file) : Happens("mixed", [file EXCEPT ![i] = file[j], ![j] = file[i]])
  /\ UNCHANGED <<pending, saved, weights, reader, outcome>>

-----------------------------------------------------------------------------
(* Load: a restore (all) or an inspection, with the key of the environment.*)
Refused(why, key) ==
  [is |-> "refused", why |-> why, with |-> key, intact |-> Intact, got |-> [e \in {} |-> Other]]

Starts(kinds) == file # <<>> /\ file[1].kind \in kinds /\ file[1].is # "part"

(* Broken: the files of older builds are no longer known.                  *)
EncryptedOfToday == Starts({"magic"}) /\ file[1].is = "whole"

Encrypted == Starts({"magic", "oldMagic"}) /\ file[1].is = "whole"
Salted == Encrypted /\ file[1].kind = "magic"
SaltMissing == Salted /\ (Len(file) >= 2 => file[2].is = "part")

(* The salt as it is read.                                                 *)
SaltRead ==
  IF ~Salted THEN 0
  ELSE IF file[2].is = "flipped" THEN MaxSaves + 1 ELSE file[2].index

OpenPlain(all) ==
  /\ ~reader.on /\ outcome = NoOutcome
  /\ Starts({"plain"})
  /\ reader' = [Nowhere EXCEPT !.on = TRUE, !.intact = Intact, !.all = all, !.at = 1]
  /\ UNCHANGED <<file, pending, saved, damaged, weights, outcome>>

OpenEncrypted(key, all) ==
  /\ ~reader.on /\ outcome = NoOutcome
  /\ Encrypted /\ ~SaltMissing /\ key # NoKey
  /\ reader' = [Nowhere EXCEPT !.on = TRUE, !.intact = Intact, !.all = all,
                   !.at = IF Salted THEN 3 ELSE 2, !.key = StateKey(key, SaltRead)]
  /\ UNCHANGED <<file, pending, saved, damaged, weights, outcome>>

OpenFails(key) ==
  /\ ~reader.on /\ outcome = NoOutcome
  /\ \/ ~Encrypted /\ ~Starts({"plain"}) /\ outcome' = Refused("not a checkpoint", key)
     \/ SaltMissing /\ outcome' = Refused("truncated", key)
     \/ Encrypted /\ ~SaltMissing /\ key = NoKey /\ outcome' = Refused("no key", key)
  /\ UNCHANGED <<file, pending, saved, damaged, weights, reader>>

Ends(is, why) ==
  /\ outcome' = [is |-> is, why |-> why,
                 with |-> IF reader.key = <<>> THEN NoKey ELSE reader.key[1],
                 intact |-> reader.intact, got |-> reader.got]
  /\ reader' = Nowhere

Opens(p) ==
  p.kind = "frame" /\ p.is = "whole" /\ p.key = reader.key /\ p.index = reader.frames

(* The next piece.  Where the file ends before the archive does, the       *)
(* decompression fails; damage in a plain file may or may not make it fail.*)
ReadPiece ==
  /\ reader.on /\ reader.buf = <<>>
  /\ IF reader.at > Len(file) THEN Ends("refused", "truncated")
     ELSE LET p == file[reader.at] IN
       \/ /\ p.is = "part"
          /\ Ends("refused", "truncated")
       \/ /\ p.is # "part" /\ reader.key # <<>> /\ ~Opens(p)
          /\ Ends("refused", "decrypt")
       \/ /\ p.is = "flipped" /\ reader.key = <<>>
          /\ Ends("refused", "corrupt")
       \/ /\ p.is # "part" /\ (reader.key # <<>> => Opens(p))
          /\ reader' = [reader EXCEPT !.at = @ + 1, !.frames = @ + 1,
               !.buf = IF p.is = "whole" THEN p.cells
                       ELSE [i \in DOMAIN p.cells |-> Cell(p.cells[i].entry, Other)]]
          /\ UNCHANGED outcome
  /\ UNCHANGED <<file, pending, saved, damaged, weights>>

Rest == [reader EXCEPT !.buf = Tail(@)]
Keep(c) == [Rest EXCEPT !.got = [e \in DOMAIN @ \cup {c.entry} |-> IF e = c.entry THEN c.of ELSE @[e]]]

(* The next entry of the archive.  An inspection needs no more than the    *)
(* manifest; weights are extracted over those that are there.  A restore   *)
(* ends with the archive, and does not read on to the checksum.            *)
TakeEntry ==
  /\ reader.on /\ reader.buf # <<>> /\ Head(reader.buf).entry \in Entries
  /\ LET c == Head(reader.buf) IN
       \/ /\ c.of = Other /\ c.entry \in {"manifest", "conversation"}
          /\ Ends("refused", "corrupt")
       \/ /\ c.entry = "manifest" /\ ~reader.all
          /\ outcome' = [is |-> "inspected", why |-> "", intact |-> reader.intact, got |-> Keep(c).got,
                         with |-> IF reader.key = <<>> THEN NoKey ELSE reader.key[1]]
          /\ reader' = Nowhere
       \/ /\ c.entry # "manifest" \/ reader.all
          /\ reader' = Keep(c) /\ UNCHANGED outcome
  /\ UNCHANGED <<file, pending, saved, damaged, weights>>

Extract ==
  /\ reader.on /\ reader.buf # <<>> /\ Head(reader.buf).entry = "weights"
  /\ weights' = Append(IF reader.extracts THEN weights ELSE <<>>, Head(reader.buf).of)
  /\ reader' = [Rest EXCEPT !.extracts = TRUE]
  /\ UNCHANGED <<file, pending, saved, damaged, outcome>>

EndOfArchive ==
  /\ reader.on /\ reader.buf # <<>> /\ Head(reader.buf).entry \in {"end", "sum"}
  /\ Ends(IF "manifest" \in DOMAIN reader.got THEN "restored" ELSE "refused", "")
  /\ UNCHANGED <<file, pending, saved, damaged, weights>>

ReaderStops ==
  /\ reader.on
  /\ reader' = Nowhere
  /\ UNCHANGED <<file, pending, saved, damaged, weights, outcome>>

(* `checkpoint inspect` reads the manifest (its --transcript is left out);  *)
(* a restore reads all of the file.                                        *)
Inspect(key) == OpenPlain(FALSE) \/ OpenEncrypted(key, FALSE) \/ OpenFails(key)
Restore(key) == OpenPlain(TRUE) \/ OpenEncrypted(key, TRUE)

(* The session goes its way, and the file is there for another command.    *)
Again ==
  /\ outcome # NoOutcome
  /\ outcome' = NoOutcome
  /\ UNCHANGED <<file, pending, saved, damaged, weights, reader>>

Next ==
  \/ \E s \in Sessions, seal \in BOOLEAN, p \in Passphrases \cup {NoKey} : Save(s, seal, p)
  \/ WriteMore \/ SaveStops \/ Carry
  \/ \E k \in Passphrases \cup {NoKey} : Inspect(k) \/ Restore(k)
  \/ ReadPiece \/ TakeEntry \/ Extract \/ EndOfArchive \/ ReaderStops \/ Again

Spec == Init /\ [][Next]_vars
-----------------------------------------------------------------------------
(* Every variable keeps its type.                                          *)
TypeOK ==
  /\ \A i \in DOMAIN file : file[i].kind \in {"plain", "magic", "oldMagic", "salt", "frame"}
  /\ saved.session \in Sessions \cup {Other} /\ saved.by \in 0 .. MaxSaves
  /\ damaged \subseteq {"cut", "mixed", "flipped"}
  /\ Range(weights) \subseteq Range(Weights) \cup {Other}
  /\ reader.on \in BOOLEAN
  /\ outcome.is \in {"none", "refused", "inspected", "restored"}

(* What a checkpoint restores, or shows, is what was saved, all of it: of  *)
(* a file that is encrypted whatever happened to it, of a plain one if it  *)
(* was only cut, by a save or on its way.  Nobody verifies a plain one.    *)
RestoredIsSaved ==
  (saved.pass # NoKey \/ "flipped" \notin damaged) =>
    /\ outcome.is = "inspected" => outcome.got["manifest"] = saved.session
    /\ outcome.is = "restored" =>
         /\ outcome.got = [e \in Entries |-> saved.session]
         /\ saved.seal => weights = Weights

(* An intact checkpoint restores with its key, and a wrong key or none is  *)
(* refused in words of its own.                                            *)
RefusedForAReason ==
  outcome.is # "none" /\ outcome.intact =>
    IF saved.pass = NoKey \/ outcome.with = saved.pass THEN outcome.is # "refused"
    ELSE outcome.why = IF outcome.with = NoKey THEN "no key" ELSE "decrypt"
=============================================================================
