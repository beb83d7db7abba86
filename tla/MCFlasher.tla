----------------------------- MODULE MCFlasher -----------------------------
(* Flasher on a small instance: one job of each kind.                      *)
EXTENDS Flasher

Image(size, order) == [exists |-> TRUE, size |-> size, header |-> "RTSM", masked |-> "RTSM", order |-> order]

Load(program, files, format, storage) ==
  [program |-> program, command |-> "load", part |-> <<"IWR", "WR68">>, files |-> files,
   format |-> format, storage |-> storage, keys |-> Keys]

MCJobs == {
  Load("cli", <<Image(241, 1)>>, TRUE, "SFLASH"),
  Load("cli", <<[Image(240, 1) EXCEPT !.exists = FALSE]>>, FALSE, "SFLASH"),
  Load("ui", <<Image(241, 1), Image(241, 2)>>, FALSE, "SFLASH"),
  Load("ui", <<Image(480, 1)>>, TRUE, "SRAM"),
  Load("ui", <<Image(240, 1), [Image(240, 2) EXCEPT !.header = "none", !.masked = "none"]>>, FALSE, "SFLASH"),
  Load("ui", <<Image(1000, 1)>>, FALSE, "SFLASH"),
  [Load("ui", <<Image(240, 1)>>, FALSE, "SFLASH") EXCEPT !.part = <<"AWR", "WR14">>],
  [Load("ui", <<Image(240, 1)>>, FALSE, "SFLASH") EXCEPT !.part = <<"AWR", "WR29">>],
  [Load("ui", <<Image(240, 1)>>, FALSE, "SFLASH") EXCEPT !.keys = {"COMPort"}],
  [Load("ui", <<>>, FALSE, "SFLASH") EXCEPT !.command = "Format"],
  Load("copy", <<Image(240, 1)>>, FALSE, "SFLASH")}
=============================================================================
