--------------------------- MODULE MCGenerationJob ---------------------------
EXTENDS GenerationJob

CONSTANT w1

=============================================================================
