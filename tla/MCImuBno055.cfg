SPECIFICATION DriverFairSpec
INVARIANT FusionUnlessFailed
PROPERTIES FreshSample SamplesResume
