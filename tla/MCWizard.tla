------------------------------ MODULE MCWizard ------------------------------
\* The set-up wizard on hosts that lack any part of the chain up to the GPU, and its driver.
EXTENDS Wizard
AnyOfTheChain == {"docker", "compose", "nvsmi", "nvtoolkit"}
=============================================================================
