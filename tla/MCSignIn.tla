------------------------------ MODULE MCSignIn ------------------------------
EXTENDS SignIn

CONSTANTS ann, bob, c1

Names == {ann, bob}
Codes == {c1}
=============================================================================
