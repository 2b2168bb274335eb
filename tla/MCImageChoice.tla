---------------------------- MODULE MCImageChoice ----------------------------
EXTENDS ImageChoice

(* Images that fit one of two cards or both, SMC images and other files. *)
MCImages == {[kind |-> "flash", fits |-> {1, 2}], [kind |-> "flash", fits |-> {1}],
             [kind |-> "smc", fits |-> {}], [kind |-> "junk", fits |-> {}]}

Line(t, p, f, d, s) ==
  [tool |-> t, path |-> p, named |-> 1, files |-> f, device |-> d, spare |-> s]

Tools == {"micflash", "mpssflash"}
Paths == {"directory", "file", "bare_file"}
AnyFiles == [Files -> MCImages]
TwoFit   == [f \in Files |-> [kind |-> "flash", fits |-> {1, 2}]]

(* Two cards or the same card twice; descriptors that run out at the second *)
(* card of a search but not at that of a named file, or that are enough.     *)
MCJobs ==
  {Line(t, p, f, <<1, 2>>, 10) : t \in Tools, p \in Paths, f \in AnyFiles}
  \cup {Line("micflash", p, f, <<1, 2>>, 14) : p \in Paths, f \in AnyFiles}
  \cup {Line(t, p, TwoFit, <<1, 1>>, 10) : t \in Tools, p \in Paths}

(* A file is named for two cards. *)
OneFile == {Line("mpssflash", p, f, <<1, 2>>, 10) : p \in {"file", "bare_file"}, f \in AnyFiles}
=============================================================================
