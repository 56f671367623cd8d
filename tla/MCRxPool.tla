------------------------------ MODULE MCRxPool ------------------------------
EXTENDS RxPool, TLC

PageSymmetry == Permutations(Pages)

=============================================================================
