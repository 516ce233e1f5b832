------------------------------ MODULE MCVerdict ------------------------------
(* The ways a go test -json command of Go 1.24 and later comes out, with pipes *)
(* of two lines and one quoted line fewer than the longest build prints.       *)
EXTENDS Verdict

Ev(action, test, text) == [json |-> TRUE, action |-> action, test |-> test, text |-> text]

Raw(text) == [json |-> FALSE, action |-> "", test |-> "", text |-> text]

Run(out, err, ends, verdict, counts) ==
  [says |-> [s \in Streams |-> IF s = "stdout" THEN out ELSE err], ends |-> ends,
   verdict |-> verdict, passed |-> counts[1], failed |-> counts[2], skipped |-> counts[3]]

Green == <<Ev("run", "T", "none"), Ev("output", "T", "plain"), Ev("pass", "T", "none"),
           Ev("pass", "", "none")>>

Subtests == <<Ev("run", "T", "none"), Ev("run", "T/s", "none"), Ev("pass", "T/s", "none"),
              Ev("pass", "T", "none"), Ev("skip", "U", "none"), Ev("pass", "", "none")>>

Red == <<Ev("run", "T", "none"), Ev("output", "T/s", "compile"), Ev("fail", "T/s", "none"),
         Ev("fail", "T", "none"), Ev("pass", "U", "none"), Ev("fail", "", "none")>>

Panicked == <<Ev("run", "T", "none"), Ev("output", "T", "panic"), Ev("fail", "T", "none"),
              Ev("fail", "", "none")>>

PackagePanic == <<Ev("output", "", "panic"), Ev("output", "", "plain"), Ev("fail", "", "none")>>

Stuck == <<Ev("run", "T", "none"), Ev("output", "T", "testTimeout"), Ev("fail", "T", "none"),
           Ev("fail", "", "none")>>

NoBuild == <<Ev("build-output", "", "plain"), Ev("build-output", "", "compile"),
             Ev("build-fail", "", "none"), Ev("output", "", "compile"), Ev("fail", "", "none")>>

InitPrints == <<Ev("output", "", "compile")>> \o Green

TestPrints == <<Ev("run", "T", "none"), Ev("output", "T", "testTimeout"), Ev("pass", "T", "none")>>

MCScripts == {
  Run(Green, << >>, "zero", "passed", <<1, 0, 0>>),
  Run(Subtests, <<Raw("plain"), Raw("plain"), Raw("blank"), Raw("plain")>>, "zero", "passed", <<1, 0, 1>>),
  Run(Red, <<Raw("plain")>>, "nonzero", "failed", <<1, 1, 0>>),
  Run(Panicked, << >>, "nonzero", "failed", <<0, 1, 0>>),
  Run(PackagePanic, << >>, "nonzero", "failed", <<0, 0, 0>>),
  Run(Stuck, << >>, "nonzero", "timeout", <<0, 1, 0>>),
  Run(NoBuild, <<Raw("plain")>>, "nonzero", "build_failed", <<0, 0, 0>>),
  Run(<<Raw("compile")>>, <<Raw("plain"), Raw("compile")>>, "nonzero", "build_failed", <<0, 0, 0>>),
  Run(<< >>, <<Raw("plain"), Raw("plain")>>, "nonzero", "build_failed", <<0, 0, 0>>),
  Run(SubSeq(Green, 1, 2), << >>, "never", "timeout", <<0, 0, 0>>),
  Run(InitPrints, << >>, "zero", "passed", <<1, 0, 0>>),
  Run(TestPrints, << >>, "zero", "passed", <<1, 0, 0>>),
  Run(<<Raw("long")>> \o Green, << >>, "zero", "passed", <<1, 0, 0>>),
  Run(Green, <<Raw("long"), Raw("plain"), Raw("plain")>>, "zero", "passed", <<1, 0, 0>>)}
==============================================================================
