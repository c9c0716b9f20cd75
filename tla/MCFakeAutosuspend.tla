-------------------------- MODULE MCFakeAutosuspend --------------------------
EXTENDS FakeAutosuspend

\* A kernel with the usage-count underflow check, and one without.
MCChecked   == {TRUE}
MCAnyKernel == {TRUE, FALSE}
====
