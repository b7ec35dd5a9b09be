----------------------------- MODULE MCSpinLock -----------------------------
EXTENDS SpinLock
====
